---- MODULE Spec2Model ----
(***************************************************************************)
(* Sports web application: the storage abstraction (MemStorage and         *)
(* DatabaseStorage behind IStorage), the passport session layer and the    *)
(* express route handlers of server/routes.ts.                             *)
(*                                                                         *)
(* Time is counted in units of 30 minutes, so one hour is 2 units.         *)
(***************************************************************************)
EXTENDS Integers, Sequences, FiniteSets, TLC

(***************************************************************************)
(* Bounds of the model.                                                    *)
(***************************************************************************)
MaxUsers == 3          \* users ever created, the seeded admin included
MaxCallUserId == 2     \* user ids passed to direct storage calls
MaxFavorites == 2      \* favorites ever created
MaxRequests == 4       \* HTTP requests handled in one behaviour
MaxAuthRequests == 3   \* requests handled in one behaviour of AuthSpec
NumSessions == 2       \* browser sessions
MaxNotifications == 2  \* notifications ever created
MaxNews == 1            \* news articles ever created
MaxFeedback == 1       \* feedback records submitted in one behaviour
MaxNow == 50           \* ticks of the clock (units of 30 minutes)
MaxDelay == 2          \* ticks of the clock between the requests of UpcomingSpec
MaxCallNotifications == 2  \* notifications made by direct createNotification calls
NumTasks == 2          \* asynchronous calls in flight at the same time

(***************************************************************************)
(* Program constants.                                                      *)
(***************************************************************************)
MinPasswordLen == 6
HourUnits == 2

Sessions == 1..NumSessions
UserIds == 1..MaxCallUserId
SampleMatchIds == 1..3
Tasks == 1..NumTasks

(***************************************************************************)
(* Helpers for Map / table values: a collection is a function from the     *)
(* key under which a record is stored (Map key, table row) to the record.  *)
(***************************************************************************)
Put(f, k, v) == [x \in (DOMAIN f) \cup {k} |-> IF x = k THEN v ELSE f[x]]

Remove(f, K) == [x \in (DOMAIN f) \ K |-> f[x]]

Values(f) == {f[k] : k \in DOMAIN f}

\* object spread { ...rec, ...data }
Spread(rec, data) ==
  [k \in (DOMAIN rec) \cup (DOMAIN data) |->
     IF k \in DOMAIN data THEN data[k] ELSE rec[k]]

\* const { password, ...rest } = rec
Without(rec, field) == [k \in (DOMAIN rec) \ {field} |-> rec[k]]

Min(S) == CHOOSE x \in S : \A y \in S : x <= y

\* the value a lookup yields when nothing is found
undefined == [undefined |-> TRUE]

(***************************************************************************)
(* String.prototype.toLowerCase on the strings of the model.               *)
(***************************************************************************)
toLowerCase(s) ==
  CASE s = "Admin" -> "admin"
    [] s = "ADMIN@sportsapp.com" -> "admin@sportsapp.com"
    [] s = "Bob" -> "bob"
    [] s = "BOB@x.com" -> "bob@x.com"
    [] OTHER -> s

\* bcrypt.hash / bcrypt.compare: an opaque one-way hash
bcryptHash(p) == <<"bcrypt", p>>

bcryptCompare(p, h) == h = bcryptHash(p)

\* z.string().email() on the strings of the model
IsEmail(s) == s \in {"admin@sportsapp.com", "ADMIN@sportsapp.com", "bob@x.com", "BOB@x.com"}

VARIABLES
  backend,                \* "mem": MemStorage, "db": DatabaseStorage
  users, matches, favorites, notifications, feedbacks, newsArticles,
  userIdCounter, matchIdCounter, favoriteIdCounter,
  notificationIdCounter, feedbackIdCounter, newsArticleIdCounter,
  session,                \* session -> user id serialized into it, 0 if none
  now,                    \* the clock
  nreq,                   \* requests handled so far
  req,                    \* the request or storage call handled last
  res,                    \* its response or return value
  tasks                   \* the asynchronous calls in flight and their positions

vars == <<backend, users, matches, favorites, notifications, feedbacks,
          newsArticles, userIdCounter, matchIdCounter, favoriteIdCounter,
          notificationIdCounter, feedbackIdCounter, newsArticleIdCounter,
          session, now, nreq, tasks, req, res>>

\* a task that has not been started
Idle == [pc |-> "idle", args |-> [none |-> TRUE], found |-> FALSE]

storeVars == <<users, matches, favorites, notifications, feedbacks,
               newsArticles, userIdCounter, matchIdCounter, favoriteIdCounter,
               notificationIdCounter, feedbackIdCounter, newsArticleIdCounter>>

(***************************************************************************)
(* Seed data: constructor of MemStorage / DatabaseStorage.seedInitialData  *)
(***************************************************************************)
AdminUser ==
  [id |-> 1, username |-> "admin", email |-> "admin@sportsapp.com",
   password |-> bcryptHash("admin123"), role |-> "admin", createdAt |-> 0]

SampleMatches ==
  (1 :> [id |-> 1, sportType |-> "football", team1 |-> "Arsenal",
         team2 |-> "Liverpool", matchTime |-> [date |-> 0 - 1], status |-> "live",
         createdAt |-> 0])
  @@ (2 :> [id |-> 2, sportType |-> "football", team1 |-> "Barcelona",
            team2 |-> "Real Madrid", matchTime |-> [date |-> 24 * HourUnits],
            status |-> "upcoming", createdAt |-> 0])
  @@ (3 :> [id |-> 3, sportType |-> "cricket", team1 |-> "India",
            team2 |-> "Pakistan", matchTime |-> [date |-> 0 - (2 * HourUnits)],
            status |-> "live", createdAt |-> 0])

InitStore ==
  /\ backend \in {"mem", "db"}
  /\ users = (1 :> AdminUser)
  /\ matches = SampleMatches
  /\ favorites = << >>
  /\ notifications = << >>
  /\ feedbacks = << >>
  /\ newsArticles = << >>
  /\ userIdCounter = 2
  /\ matchIdCounter = 4
  /\ favoriteIdCounter = 1
  /\ notificationIdCounter = 1
  /\ feedbackIdCounter = 1
  /\ newsArticleIdCounter = 1
  /\ session = [s \in Sessions |-> 0]
  /\ now = 0
  /\ nreq = 0
  /\ tasks = [t \in Tasks |-> Idle]
  /\ req = [route |-> "none", session |-> 0, user |-> undefined,
            body |-> [none |-> TRUE], param |-> 0]
  /\ res = [status |-> 0, message |-> "", key |-> "", value |-> undefined]

(***************************************************************************)
(* Storage operations.  Each operator computes the outcome of one IStorage *)
(* call on the given collections: the returned value and the collections   *)
(* after the call.  "mem" is MemStorage, "db" is DatabaseStorage on top of *)
(* the tables of shared/schema.ts.                                         *)
(***************************************************************************)
Ids(f) == {f[k].id : k \in DOMAIN f}

\* rows of a table selected by a predicate on the id column
RowsById(f, id) == {k \in DOMAIN f : f[k].id = id}

getUser(us, id) ==
  IF backend = "mem"
  THEN IF id \in DOMAIN us THEN us[id] ELSE undefined
  ELSE IF RowsById(us, id) # {} THEN us[Min(RowsById(us, id))] ELSE undefined

getUserByUsername(us, username) ==
  LET hit == IF backend = "mem"
             THEN {k \in DOMAIN us :
                     toLowerCase(us[k].username) = toLowerCase(username)}
             ELSE {k \in DOMAIN us : us[k].username = username}
  IN IF hit # {} THEN us[Min(hit)] ELSE undefined

getUserByEmail(us, email) ==
  LET hit == IF backend = "mem"
             THEN {k \in DOMAIN us :
                     toLowerCase(us[k].email) = toLowerCase(email)}
             ELSE {k \in DOMAIN us : us[k].email = email}
  IN IF hit # {} THEN us[Min(hit)] ELSE undefined

\* isFavorite comparing the record id instead of the match id
isFavorite_WrongField(fs, userId, matchId) ==
  \E k \in DOMAIN fs : fs[k].userId = userId /\ fs[k].id = matchId

isFavorite(fs, userId, matchId) ==
  \E k \in DOMAIN fs : fs[k].userId = userId /\ fs[k].matchId = matchId

\* addFavorite that inserts first and looks for the duplicate afterwards
addFavorite_InsertThenThrow(fs, us, ms, ctr, userId, matchId) ==
  LET newFavorite == [id |-> ctr, userId |-> userId, matchId |-> matchId,
                      createdAt |-> now]
  IN IF isFavorite(fs, userId, matchId)
     THEN [error |-> "Match is already in favorites", favorite |-> undefined,
           favorites |-> Put(fs, ctr, newFavorite), counter |-> ctr + 1]
     ELSE [error |-> "", favorite |-> newFavorite,
           favorites |-> Put(fs, ctr, newFavorite), counter |-> ctr + 1]

\* addFavorite: [error, favorite, favorites, counter]
addFavorite(fs, us, ms, ctr, userId, matchId) ==
  IF isFavorite(fs, userId, matchId)
  THEN [error |-> "Match is already in favorites", favorite |-> undefined,
        favorites |-> fs, counter |-> ctr]
  ELSE IF backend = "db" /\ ~(userId \in Ids(us) /\ matchId \in Ids(ms))
  THEN \* foreign key violation; the serial value is consumed
       [error |-> "violates foreign key constraint", favorite |-> undefined,
        favorites |-> fs, counter |-> ctr + 1]
  ELSE LET newFavorite == [id |-> ctr, userId |-> userId,
                           matchId |-> matchId, createdAt |-> now]
       IN [error |-> "", favorite |-> newFavorite,
           favorites |-> Put(fs, ctr, newFavorite), counter |-> ctr + 1]

\* removeFavorite: [result, favorites]
removeFavorite(fs, userId, matchId) ==
  LET hit == {k \in DOMAIN fs : fs[k].userId = userId /\ fs[k].matchId = matchId}
  IN IF hit = {}
     THEN [result |-> FALSE, favorites |-> fs]
     ELSE IF backend = "mem"
     THEN [result |-> fs[Min(hit)].id \in DOMAIN fs,
           favorites |-> Remove(fs, {fs[Min(hit)].id})]
     ELSE [result |-> TRUE, favorites |-> Remove(fs, hit)]

\* deleteUser that removes only the user record
deleteUser_NoCascade(us, fs, ns, fb, id) ==
  [result |-> RowsById(us, id) # {}, users |-> Remove(us, RowsById(us, id)),
   favorites |-> fs, notifications |-> ns, feedbacks |-> fb]

\* deleteUser: [result, users, favorites, notifications, feedbacks]
deleteUser(us, fs, ns, fb, id) ==
  IF backend = "mem"
  THEN [result |-> id \in DOMAIN us,
        users |-> Remove(us, {id}),
        favorites |-> Remove(fs, {k \in DOMAIN fs : fs[k].userId = id}),
        notifications |-> Remove(ns, {k \in DOMAIN ns : ns[k].userId = id}),
        feedbacks |-> fb]
  ELSE IF RowsById(us, id) = {}
  THEN [result |-> FALSE, users |-> us, favorites |-> fs,
        notifications |-> ns, feedbacks |-> fb]
  ELSE \* onDelete: 'cascade' for favorites and notifications, 'set null' for feedback
       [result |-> TRUE,
        users |-> Remove(us, RowsById(us, id)),
        favorites |-> Remove(fs, {k \in DOMAIN fs : fs[k].userId = id}),
        notifications |-> Remove(ns, {k \in DOMAIN ns : ns[k].userId = id}),
        feedbacks |-> [k \in DOMAIN fb |->
                         IF fb[k].userId = id
                         THEN [fb[k] EXCEPT !.userId = 0] ELSE fb[k]]]

\* deleteMatch that removes only the match record
deleteMatch_NoCascade(ms, fs, id) ==
  [result |-> RowsById(ms, id) # {}, matches |-> Remove(ms, RowsById(ms, id)),
   favorites |-> fs]

\* deleteMatch: [result, matches, favorites]
deleteMatch(ms, fs, id) ==
  IF backend = "mem"
  THEN [result |-> id \in DOMAIN ms,
        matches |-> Remove(ms, {id}),
        favorites |-> Remove(fs, {k \in DOMAIN fs : fs[k].matchId = id})]
  ELSE IF RowsById(ms, id) = {}
  THEN [result |-> FALSE, matches |-> ms, favorites |-> fs]
  ELSE [result |-> TRUE,
        matches |-> Remove(ms, RowsById(ms, id)),
        favorites |-> Remove(fs, {k \in DOMAIN fs : fs[k].matchId = id})]

\* createUser: [error, user, users, counter]
createUser(us, ctr, data) ==
  IF backend = "db"
     /\ \E k \in DOMAIN us :
          us[k].username = data.username \/ us[k].email = data.email
  THEN \* unique constraint on username / email; the serial value is consumed
       [error |-> "violates unique constraint", user |-> undefined,
        users |-> us, counter |-> ctr + 1]
  ELSE LET user == Spread(data, [id |-> ctr, createdAt |-> now])
       IN [error |-> "", user |-> user, users |-> Put(us, ctr, user),
           counter |-> ctr + 1]

\* the columns of the users table that a partial update may set
UserColumns == {"id", "username", "email", "password", "role", "createdAt"}

\* rows of other tables that reference the user id
ReferencesUser(fs, ns, fb, id) ==
  \/ \E k \in DOMAIN fs : fs[k].userId = id
  \/ \E k \in DOMAIN ns : ns[k].userId = id
  \/ \E k \in DOMAIN fb : fb[k].userId = id

\* updateUser: [error, user, users]
updateUser(us, fs, ns, fb, id, userData) ==
  IF backend = "mem"
  THEN IF id \notin DOMAIN us
       THEN [error |-> "", user |-> undefined, users |-> us]
       ELSE LET updatedUser == Spread(us[id], userData)
            IN [error |-> "", user |-> updatedUser,
                users |-> Put(us, id, updatedUser)]
  ELSE LET cols == (DOMAIN userData) \cap UserColumns
           set == [c \in cols |-> userData[c]]
           rows == RowsById(us, id)
           others == (DOMAIN us) \ rows
           clash == \E k \in others :
                      \/ "username" \in cols /\ us[k].username = set.username
                      \/ "email" \in cols /\ us[k].email = set.email
                      \/ "id" \in cols /\ us[k].id = set.id
           moved == "id" \in cols /\ set.id # id
                      /\ ReferencesUser(fs, ns, fb, id)
       IN IF cols = {}
          THEN [error |-> "No values to set", user |-> undefined, users |-> us]
          ELSE IF rows = {}
          THEN [error |-> "", user |-> undefined, users |-> us]
          ELSE IF clash
          THEN [error |-> "violates unique constraint", user |-> undefined,
                users |-> us]
          ELSE IF moved
          THEN [error |-> "violates foreign key constraint",
                user |-> undefined, users |-> us]
          ELSE LET k == Min(rows)
                   updatedUser == Spread(us[k], set)
               IN [error |-> "", user |-> updatedUser,
                   users |-> Put(us, k, updatedUser)]

(***************************************************************************)
(* StorageSpec: IStorage calls made one after another on either backend.   *)
(***************************************************************************)
(***************************************************************************)
(* Times.  A Date object is [date |-> t]; a timestamp that arrived in a    *)
(* JSON body is a string, [iso |-> t].                                     *)
(***************************************************************************)
IsDate(v) == "date" \in DOMAIN v

\* new Date(v).getTime()
getTime(v) == IF IsDate(v) THEN v.date ELSE v.iso

\* keys of t ordered by descending t[k]; equal values keep the key order
\* (Array.prototype.sort is stable, ORDER BY ... DESC)
RECURSIVE SortKeysDesc(_)
SortKeysDesc(t) ==
  IF DOMAIN t = {}
  THEN << >>
  ELSE LET best == CHOOSE k \in DOMAIN t :
                     \A j \in DOMAIN t :
                       t[k] > t[j] \/ (t[k] = t[j] /\ k <= j)
       IN <<best>> \o SortKeysDesc([j \in (DOMAIN t) \ {best} |-> t[j]])

\* the elements of a set of keys in ascending order
RECURSIVE SeqOfSet(_)
SeqOfSet(S) ==
  IF S = {} THEN << >> ELSE <<Min(S)>> \o SeqOfSet(S \ {Min(S)})

getMatch(ms, id) ==
  IF backend = "mem"
  THEN IF id \in DOMAIN ms THEN ms[id] ELSE undefined
  ELSE IF RowsById(ms, id) # {} THEN ms[Min(RowsById(ms, id))] ELSE undefined

\* getMatches that returns the matches in the order of their keys
getMatches_Unsorted(ms, sportType, status) ==
  LET hit == {k \in DOMAIN ms :
                /\ sportType # "" => ms[k].sportType = sportType
                /\ status # "" => ms[k].status = status}
      order == SeqOfSet(hit)
  IN [i \in 1..Len(order) |-> ms[order[i]]]

\* getMatches; "" stands for a filter that is not given.  On the database
\* a second .where() replaces the first.
getMatches(ms, sportType, status) ==
  LET hit == IF backend = "mem"
             THEN {k \in DOMAIN ms :
                     /\ sportType # "" => ms[k].sportType = sportType
                     /\ status # "" => ms[k].status = status}
             ELSE IF status # ""
             THEN {k \in DOMAIN ms : ms[k].status = status}
             ELSE {k \in DOMAIN ms :
                     sportType # "" => ms[k].sportType = sportType}
      order == SortKeysDesc([k \in hit |-> getTime(ms[k].matchTime)])
  IN [i \in 1..Len(order) |-> ms[order[i]]]

\* the columns of the matches table
MatchColumns ==
  {"id", "sportType", "team1", "team2", "team1Logo", "team2Logo", "score1",
   "score2", "venue", "matchTime", "status", "currentTime", "createdAt"}

\* createMatch: [match, matches, counter]
createMatch(ms, ctr, data) ==
  LET row == IF backend = "mem"
             THEN data
             ELSE Spread([status |-> "upcoming"], data)
      newMatch == Spread(row, [id |-> ctr, createdAt |-> now])
  IN [match |-> newMatch, matches |-> Put(ms, ctr, newMatch),
      counter |-> ctr + 1]

\* updateMatch: [error, match, matches]
updateMatch(ms, fs, id, matchData) ==
  IF backend = "mem"
  THEN IF id \notin DOMAIN ms
       THEN [error |-> "", match |-> undefined, matches |-> ms]
       ELSE LET updatedMatch == Spread(ms[id], matchData)
            IN [error |-> "", match |-> updatedMatch,
                matches |-> Put(ms, id, updatedMatch)]
  ELSE LET cols == (DOMAIN matchData) \cap MatchColumns
           set == [c \in cols |-> matchData[c]]
           rows == RowsById(ms, id)
       IN IF cols = {}
          THEN [error |-> "No values to set", match |-> undefined,
                matches |-> ms]
          ELSE IF "matchTime" \in cols /\ ~IsDate(set.matchTime)
          THEN [error |-> "value.toISOString is not a function",
                match |-> undefined, matches |-> ms]
          ELSE IF rows = {}
          THEN [error |-> "", match |-> undefined, matches |-> ms]
          ELSE IF "id" \in cols
                  /\ \E k \in (DOMAIN ms) \ rows : ms[k].id = set.id
          THEN [error |-> "violates unique constraint", match |-> undefined,
                matches |-> ms]
          ELSE IF "id" \in cols /\ set.id # id
                  /\ \E k \in DOMAIN fs : fs[k].matchId = id
          THEN [error |-> "violates foreign key constraint",
                match |-> undefined, matches |-> ms]
          ELSE LET k == Min(rows)
                   updatedMatch == Spread(ms[k], set)
               IN [error |-> "", match |-> updatedMatch,
                   matches |-> Put(ms, k, updatedMatch)]

\* getFavoritesByUserId: [error, list]; the list joins each favorite with
\* its match
getFavoritesByUserId(fs, ms, userId) ==
  LET mine == {k \in DOMAIN fs : fs[k].userId = userId}
      found == {k \in mine : getMatch(ms, fs[k].matchId) # undefined}
      order == SeqOfSet(found)
      list == [i \in 1..Len(order) |->
                 Spread(fs[order[i]],
                        [match |-> getMatch(ms, fs[order[i]].matchId)])]
  IN IF backend = "mem" /\ found # mine
     THEN [error |-> "Match with ID not found", list |-> << >>]
     ELSE [error |-> "", list |-> list]

\* getNotificationsByUserId without the sort
getNotificationsByUserId_Unsorted(ns, userId) ==
  LET order == SeqOfSet({k \in DOMAIN ns : ns[k].userId = userId})
  IN [i \in 1..Len(order) |-> ns[order[i]]]

\* getNotificationsByUserId, newest first
getNotificationsByUserId(ns, userId) ==
  LET mine == {k \in DOMAIN ns : ns[k].userId = userId}
      order == SortKeysDesc([k \in mine |-> ns[k].createdAt])
  IN [i \in 1..Len(order) |-> ns[order[i]]]

\* createNotification: [error, notification, notifications, counter]
createNotification(ns, us, ctr, data) ==
  IF backend = "db" /\ data.userId \notin Ids(us)
  THEN [error |-> "violates foreign key constraint",
        notification |-> undefined, notifications |-> ns, counter |-> ctr + 1]
  ELSE LET newNotification == Spread(data, [id |-> ctr, createdAt |-> now])
       IN [error |-> "", notification |-> newNotification,
           notifications |-> Put(ns, ctr, newNotification),
           counter |-> ctr + 1]

\* markNotificationAsRead that flips the flag
markNotificationAsRead_Toggle(ns, id) ==
  LET rows == RowsById(ns, id)
  IN IF rows = {}
     THEN [notification |-> undefined, notifications |-> ns]
     ELSE LET k == Min(rows)
              updatedNotification == [ns[k] EXCEPT !.read = ~ns[k].read]
          IN [notification |-> updatedNotification,
              notifications |-> Put(ns, k, updatedNotification)]

\* markNotificationAsRead: [notification, notifications]
markNotificationAsRead(ns, id) ==
  LET rows == IF backend = "mem" THEN (DOMAIN ns) \cap {id}
              ELSE RowsById(ns, id)
  IN IF rows = {}
     THEN [notification |-> undefined, notifications |-> ns]
     ELSE LET k == Min(rows)
              updatedNotification == [ns[k] EXCEPT !.read = TRUE]
          IN [notification |-> updatedNotification,
              notifications |-> Put(ns, k, updatedNotification)]

\* getFeedback, newest first
getFeedback(fb) ==
  LET order == SortKeysDesc([k \in DOMAIN fb |-> fb[k].createdAt])
  IN [i \in 1..Len(order) |-> fb[order[i]]]

\* submitFeedback: [feedback, feedbacks, counter]; a missing user id
\* (undefined, NULL in the table) is 0
submitFeedback(fb, ctr, feedbackData) ==
  LET newFeedback == Spread(feedbackData, [id |-> ctr, createdAt |-> now])
  IN [feedback |-> newFeedback, feedbacks |-> Put(fb, ctr, newFeedback),
      counter |-> ctr + 1]

\* createNewsArticle: [article, newsArticles, counter]
createNewsArticle(na, ctr, article) ==
  LET newArticle == Spread(article, [id |-> ctr, createdAt |-> now])
  IN [article |-> newArticle, newsArticles |-> Put(na, ctr, newArticle),
      counter |-> ctr + 1]

\* deleteNewsArticle: [result, newsArticles]
deleteNewsArticle(na, id) ==
  LET rows == IF backend = "mem" THEN (DOMAIN na) \cap {id}
              ELSE RowsById(na, id)
  IN [result |-> rows # {}, newsArticles |-> Remove(na, rows)]

\* notifyUpcomingMatch that notifies whenever at most 24 hours remain
notifyUpcomingMatch_Within24(ns, us, ctr, userId, match) ==
  LET timeUntilMatch == getTime(match.matchTime) - now
      hoursUntilMatch == timeUntilMatch \div HourUnits
      kind == IF hoursUntilMatch <= 24 /\ hoursUntilMatch > 1
              THEN "Upcoming match tomorrow"
              ELSE IF hoursUntilMatch = 1 THEN "Match starting in 1 hour"
              ELSE ""
      c == createNotification(ns, us, ctr,
             [userId |-> userId,
              message |-> [text |-> kind, team1 |-> match.team1,
                           team2 |-> match.team2],
              read |-> FALSE])
  IN IF kind = ""
     THEN [error |-> "", notifications |-> ns, counter |-> ctr]
     ELSE [error |-> c.error, notifications |-> c.notifications,
           counter |-> c.counter]

\* notifyUpcomingMatch: [error, notifications, counter]
notifyUpcomingMatch(ns, us, ctr, userId, match) ==
  LET timeUntilMatch == getTime(match.matchTime) - now
      hoursUntilMatch == timeUntilMatch \div HourUnits
      kind == IF hoursUntilMatch = 24 THEN "Upcoming match tomorrow"
              ELSE IF hoursUntilMatch = 1 THEN "Match starting in 1 hour"
              ELSE ""
      c == createNotification(ns, us, ctr,
             [userId |-> userId,
              message |-> [text |-> kind, team1 |-> match.team1,
                           team2 |-> match.team2],
              read |-> FALSE])
  IN IF kind = ""
     THEN [error |-> "", notifications |-> ns, counter |-> ctr]
     ELSE [error |-> c.error, notifications |-> c.notifications,
           counter |-> c.counter]

\* a direct call of a storage method, and what it returned or threw
Call(method, args) ==
  [route |-> method, session |-> 0, user |-> undefined, body |-> args,
   param |-> 0]

Return(error, value) ==
  [status |-> 0, message |-> error, key |-> "return", value |-> value]

CallAddFavorite(userId, matchId) ==
  LET r == addFavorite(favorites, users, matches, favoriteIdCounter, userId, matchId)
  IN /\ favoriteIdCounter <= MaxFavorites
     /\ favorites' = r.favorites
     /\ favoriteIdCounter' = r.counter
     /\ req' = Call("addFavorite", [userId |-> userId, matchId |-> matchId])
     /\ res' = Return(r.error, r.favorite)
     /\ UNCHANGED <<backend, users, matches, notifications, feedbacks,
                    newsArticles, userIdCounter, matchIdCounter,
                    notificationIdCounter, feedbackIdCounter,
                    newsArticleIdCounter, session, now, nreq, tasks>>

CallRemoveFavorite(userId, matchId) ==
  LET r == removeFavorite(favorites, userId, matchId)
  IN /\ favorites' = r.favorites
     /\ req' = Call("removeFavorite", [userId |-> userId, matchId |-> matchId])
     /\ res' = Return("", r.result)
     /\ UNCHANGED <<backend, users, matches, notifications, feedbacks,
                    newsArticles, userIdCounter, matchIdCounter,
                    favoriteIdCounter, notificationIdCounter,
                    feedbackIdCounter, newsArticleIdCounter, session, now, nreq, tasks>>

CallDeleteUser(id) ==
  LET r == deleteUser(users, favorites, notifications, feedbacks, id)
  IN /\ users' = r.users
     /\ favorites' = r.favorites
     /\ notifications' = r.notifications
     /\ feedbacks' = r.feedbacks
     /\ req' = Call("deleteUser", [id |-> id])
     /\ res' = Return("", r.result)
     /\ UNCHANGED <<backend, matches, newsArticles, userIdCounter,
                    matchIdCounter, favoriteIdCounter, notificationIdCounter,
                    feedbackIdCounter, newsArticleIdCounter, session, now, nreq, tasks>>

CallDeleteMatch(id) ==
  LET r == deleteMatch(matches, favorites, id)
  IN /\ matches' = r.matches
     /\ favorites' = r.favorites
     /\ req' = Call("deleteMatch", [id |-> id])
     /\ res' = Return("", r.result)
     /\ UNCHANGED <<backend, users, notifications, feedbacks, newsArticles,
                    userIdCounter, matchIdCounter, favoriteIdCounter,
                    notificationIdCounter, feedbackIdCounter,
                    newsArticleIdCounter, session, now, nreq, tasks>>

StorageNext ==
  \/ \E u \in UserIds, m \in SampleMatchIds : CallAddFavorite(u, m)
  \/ \E u \in UserIds, m \in SampleMatchIds : CallRemoveFavorite(u, m)
  \/ \E u \in UserIds : CallDeleteUser(u)
  \/ \E m \in SampleMatchIds : CallDeleteMatch(m)

StorageSpec == InitStore /\ [][StorageNext]_vars

\* C1: the store never holds two Favorite records with the same
\* (userId, matchId) pair.
C1_AtMostOneFavoritePerPair ==
  \A j, k \in DOMAIN favorites :
    (favorites[j].userId = favorites[k].userId
       /\ favorites[j].matchId = favorites[k].matchId) => j = k

\* a duplicate addFavorite was attempted and refused while the pair is stored
C1_Witness ==
  /\ req.route = "addFavorite"
  /\ res.message = "Match is already in favorites"
  /\ isFavorite(favorites, req.body.userId, req.body.matchId)

(***************************************************************************)
(* Session / identity layer (passport).                                    *)
(***************************************************************************)
\* a session that keeps its identity when the stored user is gone
deserializeUser_Cached(s) ==
  IF session[s] = 0
  THEN undefined
  ELSE LET user == getUser(users, session[s])
       IN IF user = undefined
          THEN [id |-> session[s], role |-> "user"]
          ELSE Without(user, "password")

\* passport.deserializeUser: the user the request acts under, re-read from
\* storage by the id kept in the session, without the password
deserializeUser(s) ==
  IF session[s] = 0
  THEN undefined
  ELSE LET user == getUser(users, session[s])
       IN IF user = undefined THEN undefined ELSE Without(user, "password")

\* req.isAuthenticated()
isAuthenticated(s) == deserializeUser(s) # undefined

\* isAuthenticated accepting a session whose user no longer exists
isAdmin_NoRoleCheck(s) == isAuthenticated(s)

\* the isAdmin middleware lets the request through
isAdmin(s) ==
  /\ isAuthenticated(s)
  /\ deserializeUser(s).role = "admin"

\* res.status(status).json({ message })
Message(status, message) ==
  [status |-> status, message |-> message, key |-> "", value |-> undefined]

\* res.status(status).json({ [key]: value })
Json(status, key, value) ==
  [status |-> status, message |-> "", key |-> key, value |-> value]

NoBody == [none |-> TRUE]

Request(route, s, body, param) ==
  [route |-> route, session |-> s, user |-> deserializeUser(s),
   body |-> body, param |-> param]

\* one request is handled: the request and its response are recorded
Handled(route, s, body, param, response) ==
  /\ nreq < MaxRequests
  /\ nreq' = nreq + 1
  /\ UNCHANGED tasks
  /\ req' = Request(route, s, body, param)
  /\ res' = response
  /\ UNCHANGED <<backend, now>>

(***************************************************************************)
(* Schemas of shared/schema.ts, as validateRequest applies them.           *)
(***************************************************************************)
\* registerSchema: username, email, password strings, confirmPassword of at
\* least 6 characters and equal to password
ValidRegister(body) ==
  /\ {"username", "email", "password", "confirmPassword"} \subseteq DOMAIN body
  /\ Len(body.confirmPassword) >= MinPasswordLen
  /\ body.password = body.confirmPassword

\* loginSchema
ValidLogin(body) ==
  /\ {"email", "password"} \subseteq DOMAIN body
  /\ IsEmail(body.email)
  /\ Len(body.password) >= MinPasswordLen

(***************************************************************************)
(* AUTH ROUTES                                                             *)
(***************************************************************************)
\* the user record as sent to the client, password left in
StripPassword_Keep(user) == user

\* const { password, ...userWithoutPassword } = user
StripPassword(user) == Without(user, "password")

\* a registration that takes the role from the request body
RegisterOutcome_RoleFromBody(s, body) ==
  LET stay == [users |-> users, counter |-> userIdCounter, login |-> session[s]]
  IN IF ~ValidRegister(body)
     THEN stay @@ [res |-> Message(400, "Validation error")]
     ELSE IF getUserByEmail(users, body.email) # undefined
     THEN stay @@ [res |-> Message(400, "Email already in use")]
     ELSE IF getUserByUsername(users, body.username) # undefined
     THEN stay @@ [res |-> Message(400, "Username already taken")]
     ELSE LET c == createUser(users, userIdCounter,
                     [username |-> body.username, email |-> body.email,
                      password |-> bcryptHash(body.password),
                      role |-> IF "role" \in DOMAIN body THEN body.role
                               ELSE "user"])
          IN IF c.error # ""
             THEN [users |-> c.users, counter |-> c.counter,
                   login |-> session[s],
                   res |-> Message(500, "Server error during registration")]
             ELSE [users |-> c.users, counter |-> c.counter,
                   login |-> c.user.id,
                   res |-> Json(201, "user", StripPassword(c.user))]

\* the outcome of POST /api/register: [users, counter, login, res]
RegisterOutcome(s, body) ==
  LET stay == [users |-> users, counter |-> userIdCounter, login |-> session[s]]
  IN IF ~ValidRegister(body)
     THEN stay @@ [res |-> Message(400, "Validation error")]
     ELSE IF getUserByEmail(users, body.email) # undefined
     THEN stay @@ [res |-> Message(400, "Email already in use")]
     ELSE IF getUserByUsername(users, body.username) # undefined
     THEN stay @@ [res |-> Message(400, "Username already taken")]
     ELSE LET c == createUser(users, userIdCounter,
                     [username |-> body.username, email |-> body.email,
                      password |-> bcryptHash(body.password), role |-> "user"])
          IN IF c.error # ""
             THEN [users |-> c.users, counter |-> c.counter,
                   login |-> session[s],
                   res |-> Message(500, "Server error during registration")]
             ELSE [users |-> c.users, counter |-> c.counter,
                   login |-> c.user.id,
                   res |-> Json(201, "user", StripPassword(c.user))]

\* POST /api/register
Register(s, body) ==
  LET o == RegisterOutcome(s, body)
  IN /\ userIdCounter <= MaxUsers
     /\ Handled("POST /api/register", s, body, 0, o.res)
     /\ users' = o.users
     /\ userIdCounter' = o.counter
     /\ session' = [session EXCEPT ![s] = o.login]
     /\ UNCHANGED <<matches, favorites, notifications, feedbacks, newsArticles,
                    matchIdCounter, favoriteIdCounter, notificationIdCounter,
                    feedbackIdCounter, newsArticleIdCounter>>

\* a verify callback that tells an unknown email from a wrong password
LocalStrategy_RevealsAccount(email, password) ==
  LET user == getUserByEmail(users, email)
  IN IF user = undefined
     THEN [user |-> undefined, message |-> "No account with that email"]
     ELSE IF ~bcryptCompare(password, user.password)
     THEN [user |-> undefined, message |-> "Invalid email or password"]
     ELSE [user |-> StripPassword(user), message |-> ""]

\* the LocalStrategy verify callback: [user, message]
LocalStrategy(email, password) ==
  LET user == getUserByEmail(users, email)
  IN IF user = undefined
     THEN [user |-> undefined, message |-> "Invalid email or password"]
     ELSE IF ~bcryptCompare(password, user.password)
     THEN [user |-> undefined, message |-> "Invalid email or password"]
     ELSE [user |-> StripPassword(user), message |-> ""]

LoginOutcome(s, body) ==
  IF ~ValidLogin(body)
  THEN [login |-> session[s], res |-> Message(400, "Validation error")]
  ELSE LET a == LocalStrategy(body.email, body.password)
       IN IF a.user = undefined
          THEN [login |-> session[s], res |-> Message(401, a.message)]
          ELSE [login |-> a.user.id, res |-> Json(200, "user", a.user)]

\* POST /api/login
Login(s, body) ==
  LET o == LoginOutcome(s, body)
  IN /\ Handled("POST /api/login", s, body, 0, o.res)
     /\ session' = [session EXCEPT ![s] = o.login]
     /\ UNCHANGED storeVars

\* a logout that answers 200 and keeps the identity in the session
Logout_KeepSession(s) ==
  /\ Handled("POST /api/auth/logout", s, NoBody, 0,
             Message(200, "Successfully logged out"))
  /\ UNCHANGED session
  /\ UNCHANGED storeVars

\* POST /api/auth/logout
Logout(s) ==
  /\ Handled("POST /api/auth/logout", s, NoBody, 0,
             Message(200, "Successfully logged out"))
  /\ session' = [session EXCEPT ![s] = 0]
  /\ UNCHANGED storeVars

\* the response of GET /api/auth/user
AuthUserResponse(s) ==
  IF deserializeUser(s) = undefined
  THEN Message(401, "Not authenticated")
  ELSE Json(200, "user", deserializeUser(s))

\* GET /api/auth/user
AuthUser(s) ==
  /\ Handled("GET /api/auth/user", s, NoBody, 0, AuthUserResponse(s))
  /\ UNCHANGED session
  /\ UNCHANGED storeVars

(***************************************************************************)
(* USER ROUTES                                                             *)
(***************************************************************************)
\* the profile data taken from the body with the role left in
ProfileData_KeepRole(body) ==
  IF "password" \in DOMAIN body
  THEN [body EXCEPT !.password = bcryptHash(body.password)]
  ELSE body

\* delete userData.role; hash userData.password if present
ProfileData(body) ==
  LET userData == Without(body, "role")
  IN IF "password" \in DOMAIN userData
     THEN [userData EXCEPT !.password = bcryptHash(userData.password)]
     ELSE userData

UpdateProfileOutcome(s, body) ==
  IF ~isAuthenticated(s)
  THEN [users |-> users, res |-> Message(401, "Not authenticated")]
  ELSE LET userId == deserializeUser(s).id
           u == updateUser(users, favorites, notifications, feedbacks,
                           userId, ProfileData(body))
       IN IF u.error # ""
          THEN [users |-> u.users,
                res |-> Message(500, "Server error during profile update")]
          ELSE IF u.user = undefined
          THEN [users |-> u.users, res |-> Message(404, "User not found")]
          ELSE [users |-> u.users,
                res |-> Json(200, "user", StripPassword(u.user))]

\* PUT /api/users/profile
UpdateProfile(s, body) ==
  LET o == UpdateProfileOutcome(s, body)
  IN /\ Handled("PUT /api/users/profile", s, body, 0, o.res)
     /\ users' = o.users
     /\ UNCHANGED <<matches, favorites, notifications, feedbacks, newsArticles,
                    userIdCounter, matchIdCounter, favoriteIdCounter,
                    notificationIdCounter, feedbackIdCounter,
                    newsArticleIdCounter, session>>

\* DELETE /api/users/account
DeleteAccount(s) ==
  IF ~isAuthenticated(s)
  THEN /\ Handled("DELETE /api/users/account", s, NoBody, 0,
                  Message(401, "Not authenticated"))
       /\ UNCHANGED session
       /\ UNCHANGED storeVars
  ELSE LET d == deleteUser(users, favorites, notifications, feedbacks,
                           deserializeUser(s).id)
       IN /\ Handled("DELETE /api/users/account", s, NoBody, 0,
                     IF d.result
                     THEN Message(200, "Account successfully deleted")
                     ELSE Message(404, "User not found"))
          /\ users' = d.users
          /\ favorites' = d.favorites
          /\ notifications' = d.notifications
          /\ feedbacks' = d.feedbacks
          /\ session' = IF d.result THEN [session EXCEPT ![s] = 0] ELSE session
          /\ UNCHANGED <<matches, newsArticles, userIdCounter, matchIdCounter,
                         favoriteIdCounter, notificationIdCounter,
                         feedbackIdCounter, newsArticleIdCounter>>

(***************************************************************************)
(* ADMIN MATCH ROUTES                                                      *)
(***************************************************************************)
\* insertMatchSchema: matchTime is a timestamp column, validated by z.date()
ValidInsertMatch(body) ==
  /\ {"sportType", "team1", "team2", "matchTime"} \subseteq DOMAIN body
  /\ body.sportType \in {"football", "cricket"}
  /\ IsDate(body.matchTime)
  /\ "status" \in DOMAIN body => body.status \in {"upcoming", "live", "completed"}

\* POST /api/admin/matches
AdminCreateMatch(s, body) ==
  LET c == createMatch(matches, matchIdCounter, body)
      created == isAdmin(s) /\ ValidInsertMatch(body)
  IN /\ Handled("POST /api/admin/matches", s, body, 0,
                IF ~isAdmin(s) THEN Message(403, "Not authorized")
                ELSE IF ~ValidInsertMatch(body)
                THEN Message(400, "Validation error")
                ELSE Json(201, "match", c.match))
     /\ matches' = IF created THEN c.matches ELSE matches
     /\ matchIdCounter' = IF created THEN c.counter ELSE matchIdCounter
     /\ UNCHANGED <<users, favorites, notifications, feedbacks, newsArticles,
                    userIdCounter, favoriteIdCounter, notificationIdCounter,
                    feedbackIdCounter, newsArticleIdCounter, session>>

\* PUT /api/admin/matches/:id
AdminUpdateMatch(s, id, body) ==
  LET u == updateMatch(matches, favorites, id, body)
  IN /\ Handled("PUT /api/admin/matches/:id", s, body, id,
                IF ~isAdmin(s) THEN Message(403, "Not authorized")
                ELSE IF u.error # ""
                THEN Message(500, "Server error while updating match")
                ELSE IF u.match = undefined
                THEN Message(404, "Match not found")
                ELSE Json(200, "match", u.match))
     /\ matches' = IF isAdmin(s) THEN u.matches ELSE matches
     /\ UNCHANGED <<users, favorites, notifications, feedbacks, newsArticles,
                    userIdCounter, matchIdCounter, favoriteIdCounter,
                    notificationIdCounter, feedbackIdCounter,
                    newsArticleIdCounter, session>>

\* DELETE /api/admin/matches/:id
AdminDeleteMatch(s, id) ==
  LET d == deleteMatch(matches, favorites, id)
  IN /\ Handled("DELETE /api/admin/matches/:id", s, NoBody, id,
                IF ~isAdmin(s) THEN Message(403, "Not authorized")
                ELSE IF ~d.result THEN Message(404, "Match not found")
                ELSE Message(200, "Match successfully deleted"))
     /\ matches' = IF isAdmin(s) THEN d.matches ELSE matches
     /\ favorites' = IF isAdmin(s) THEN d.favorites ELSE favorites
     /\ UNCHANGED <<users, notifications, feedbacks, newsArticles,
                    userIdCounter, matchIdCounter, favoriteIdCounter,
                    notificationIdCounter, feedbackIdCounter,
                    newsArticleIdCounter, session>>

(***************************************************************************)
(* FAVORITE ROUTES                                                         *)
(***************************************************************************)
\* insertFavoriteSchema: userId and matchId are both required
ValidInsertFavorite(body) == {"userId", "matchId"} \subseteq DOMAIN body

\* the response of GET /api/favorites
GetFavoritesResponse(s) ==
  LET l == getFavoritesByUserId(favorites, matches, deserializeUser(s).id)
  IN IF ~isAuthenticated(s) THEN Message(401, "Not authenticated")
     ELSE IF l.error # ""
     THEN Message(500, "Server error while fetching favorites")
     ELSE Json(200, "favorites", l.list)

\* GET /api/favorites
GetFavorites(s) ==
  /\ Handled("GET /api/favorites", s, NoBody, 0, GetFavoritesResponse(s))
  /\ UNCHANGED session
  /\ UNCHANGED storeVars

\* POST /api/favorites taking the owner from the request body
AddFavoriteOutcome_UserIdFromBody(s, body) ==
  LET stay == [favorites |-> favorites, counter |-> favoriteIdCounter]
  IN IF ~isAuthenticated(s)
     THEN stay @@ [res |-> Message(401, "Not authenticated")]
     ELSE IF ~ValidInsertFavorite(body)
     THEN stay @@ [res |-> Message(400, "Validation error")]
     ELSE LET a == addFavorite(favorites, users, matches, favoriteIdCounter,
                               body.userId, body.matchId)
          IN [favorites |-> a.favorites, counter |-> a.counter,
              res |-> IF a.error = ""
                      THEN Json(201, "favorite", a.favorite)
                      ELSE IF a.error = "Match is already in favorites"
                      THEN Message(400, a.error)
                      ELSE Message(500, "Server error while adding favorite")]

\* the handler of POST /api/favorites: [favorites, counter, res]
AddFavoriteOutcome(s, body) ==
  LET stay == [favorites |-> favorites, counter |-> favoriteIdCounter]
  IN IF ~isAuthenticated(s)
     THEN stay @@ [res |-> Message(401, "Not authenticated")]
     ELSE IF ~ValidInsertFavorite(body)
     THEN stay @@ [res |-> Message(400, "Validation error")]
     ELSE LET a == addFavorite(favorites, users, matches, favoriteIdCounter,
                               deserializeUser(s).id, body.matchId)
          IN [favorites |-> a.favorites, counter |-> a.counter,
              res |-> IF a.error = ""
                      THEN Json(201, "favorite", a.favorite)
                      ELSE IF a.error = "Match is already in favorites"
                      THEN Message(400, a.error)
                      ELSE Message(500, "Server error while adding favorite")]

\* POST /api/favorites
AddFavorite(s, body) ==
  LET o == AddFavoriteOutcome(s, body)
  IN /\ favoriteIdCounter <= MaxFavorites
     /\ Handled("POST /api/favorites", s, body, 0, o.res)
     /\ favorites' = o.favorites
     /\ favoriteIdCounter' = o.counter
     /\ UNCHANGED <<users, matches, notifications, feedbacks, newsArticles,
                    userIdCounter, matchIdCounter, notificationIdCounter,
                    feedbackIdCounter, newsArticleIdCounter, session>>

\* DELETE /api/favorites/:matchId
RemoveFavorite(s, matchId) ==
  LET r == removeFavorite(favorites, deserializeUser(s).id, matchId)
  IN /\ Handled("DELETE /api/favorites/:matchId", s, NoBody, matchId,
                IF ~isAuthenticated(s) THEN Message(401, "Not authenticated")
                ELSE IF ~r.result THEN Message(404, "Favorite not found")
                ELSE Message(200, "Favorite successfully removed"))
     /\ favorites' = IF isAuthenticated(s) THEN r.favorites ELSE favorites
     /\ UNCHANGED <<users, matches, notifications, feedbacks, newsArticles,
                    userIdCounter, matchIdCounter, favoriteIdCounter,
                    notificationIdCounter, feedbackIdCounter,
                    newsArticleIdCounter, session>>

(***************************************************************************)
(* NOTIFICATION ROUTES                                                     *)
(***************************************************************************)
\* the loop of check-upcoming over the upcoming matches:
\* [error, notifications, counter]
RECURSIVE NotifyAll(_, _, _, _, _)
NotifyAll(list, ns, ctr, userId, favoriteMatchIds) ==
  IF list = << >>
  THEN [error |-> "", notifications |-> ns, counter |-> ctr]
  ELSE LET match == Head(list)
           n == IF match.id \in favoriteMatchIds
                THEN notifyUpcomingMatch(ns, users, ctr, userId, match)
                ELSE [error |-> "", notifications |-> ns, counter |-> ctr]
       IN IF n.error # ""
          THEN n
          ELSE NotifyAll(Tail(list), n.notifications, n.counter, userId,
                         favoriteMatchIds)

\* check-upcoming looping over the matches of every status
CheckUpcomingOutcome_AnyStatus(s) ==
  LET stay == [notifications |-> notifications,
               counter |-> notificationIdCounter]
  IN IF ~isAuthenticated(s)
     THEN stay @@ [res |-> Message(401, "Not authenticated")]
     ELSE LET userId == deserializeUser(s).id
              upcoming == getMatches(matches, "", "")
              l == getFavoritesByUserId(favorites, matches, userId)
              favoriteMatchIds == {l.list[i].match.id : i \in 1..Len(l.list)}
              n == NotifyAll(upcoming, notifications, notificationIdCounter,
                             userId, favoriteMatchIds)
          IN IF l.error # ""
             THEN stay @@ [res |-> Message(500,
                             "Server error while checking notifications")]
             ELSE [notifications |-> n.notifications, counter |-> n.counter,
                   res |-> IF n.error # ""
                           THEN Message(500,
                                  "Server error while checking notifications")
                           ELSE Message(200, "Notifications checked and created")]

\* the handler of check-upcoming: [notifications, counter, res]
CheckUpcomingOutcome(s) ==
  LET stay == [notifications |-> notifications,
               counter |-> notificationIdCounter]
  IN IF ~isAuthenticated(s)
     THEN stay @@ [res |-> Message(401, "Not authenticated")]
     ELSE LET userId == deserializeUser(s).id
              upcoming == getMatches(matches, "", "upcoming")
              l == getFavoritesByUserId(favorites, matches, userId)
              favoriteMatchIds == {l.list[i].match.id : i \in 1..Len(l.list)}
              n == NotifyAll(upcoming, notifications, notificationIdCounter,
                             userId, favoriteMatchIds)
          IN IF l.error # ""
             THEN stay @@ [res |-> Message(500,
                             "Server error while checking notifications")]
             ELSE [notifications |-> n.notifications, counter |-> n.counter,
                   res |-> IF n.error # ""
                           THEN Message(500,
                                  "Server error while checking notifications")
                           ELSE Message(200, "Notifications checked and created")]

\* POST /api/notifications/check-upcoming
CheckUpcoming(s) ==
  LET o == CheckUpcomingOutcome(s)
  IN /\ notificationIdCounter <= MaxNotifications
     /\ Handled("POST /api/notifications/check-upcoming", s, NoBody, 0, o.res)
     /\ notifications' = o.notifications
     /\ notificationIdCounter' = o.counter
     /\ UNCHANGED <<users, matches, favorites, feedbacks, newsArticles,
                    userIdCounter, matchIdCounter, favoriteIdCounter,
                    feedbackIdCounter, newsArticleIdCounter, session>>

\* GET /api/notifications
GetNotifications(s) ==
  /\ Handled("GET /api/notifications", s, NoBody, 0,
             IF ~isAuthenticated(s) THEN Message(401, "Not authenticated")
             ELSE Json(200, "notifications",
                       getNotificationsByUserId(notifications,
                                                deserializeUser(s).id)))
  /\ UNCHANGED session
  /\ UNCHANGED storeVars

\* the route registered without the isAuthenticated middleware
MarkRead_NoGuard(s, id) ==
  LET m == markNotificationAsRead(notifications, id)
  IN /\ Handled("PUT /api/notifications/:id/read", s, NoBody, id,
                IF m.notification = undefined
                THEN Message(404, "Notification not found")
                ELSE Json(200, "notification", m.notification))
     /\ notifications' = m.notifications
     /\ UNCHANGED <<users, matches, favorites, feedbacks, newsArticles,
                    userIdCounter, matchIdCounter, favoriteIdCounter,
                    notificationIdCounter, feedbackIdCounter,
                    newsArticleIdCounter, session>>

\* PUT /api/notifications/:id/read
MarkRead(s, id) ==
  LET m == markNotificationAsRead(notifications, id)
  IN /\ Handled("PUT /api/notifications/:id/read", s, NoBody, id,
                IF ~isAuthenticated(s) THEN Message(401, "Not authenticated")
                ELSE IF m.notification = undefined
                THEN Message(404, "Notification not found")
                ELSE Json(200, "notification", m.notification))
     /\ notifications' = IF isAuthenticated(s) THEN m.notifications
                         ELSE notifications
     /\ UNCHANGED <<users, matches, favorites, feedbacks, newsArticles,
                    userIdCounter, matchIdCounter, favoriteIdCounter,
                    notificationIdCounter, feedbackIdCounter,
                    newsArticleIdCounter, session>>

(***************************************************************************)
(* FEEDBACK AND NEWS ROUTES (admin part)                                   *)
(***************************************************************************)
\* feedbackFormSchema: name, email, category and message are required
ValidFeedbackForm(body) ==
  {"name", "email", "category", "message"} \subseteq DOMAIN body

\* POST /api/feedback
SubmitFeedback(s, body) ==
  LET userId == IF deserializeUser(s) # undefined
                THEN deserializeUser(s).id ELSE 0
      c == submitFeedback(feedbacks, feedbackIdCounter,
             [userId |-> userId, name |-> body.name, email |-> body.email,
              category |-> body.category, message |-> body.message,
              subscribeToNewsletter |->
                IF "subscribeToNewsletter" \in DOMAIN body
                THEN body.subscribeToNewsletter ELSE FALSE])
  IN /\ feedbackIdCounter <= MaxFeedback
     /\ Handled("POST /api/feedback", s, body, 0,
                IF ~ValidFeedbackForm(body)
                THEN Message(400, "Validation error")
                ELSE Json(201, "feedback", c.feedback))
     /\ feedbacks' = IF ValidFeedbackForm(body) THEN c.feedbacks ELSE feedbacks
     /\ feedbackIdCounter' = IF ValidFeedbackForm(body) THEN c.counter
                             ELSE feedbackIdCounter
     /\ UNCHANGED <<users, matches, favorites, notifications, newsArticles,
                    userIdCounter, matchIdCounter, favoriteIdCounter,
                    notificationIdCounter, newsArticleIdCounter, session>>

\* GET /api/admin/feedback
AdminGetFeedback(s) ==
  /\ Handled("GET /api/admin/feedback", s, NoBody, 0,
             IF ~isAdmin(s) THEN Message(403, "Not authorized")
             ELSE Json(200, "feedback", getFeedback(feedbacks)))
  /\ UNCHANGED session
  /\ UNCHANGED storeVars

\* POST /api/admin/news
AdminCreateNews(s, body) ==
  LET c == createNewsArticle(newsArticles, newsArticleIdCounter, body)
  IN /\ newsArticleIdCounter <= MaxNews
     /\ Handled("POST /api/admin/news", s, body, 0,
                IF ~isAdmin(s) THEN Message(403, "Not authorized")
                ELSE Json(201, "article", c.article))
     /\ newsArticles' = IF isAdmin(s) THEN c.newsArticles ELSE newsArticles
     /\ newsArticleIdCounter' = IF isAdmin(s) THEN c.counter
                                ELSE newsArticleIdCounter
     /\ UNCHANGED <<users, matches, favorites, notifications, feedbacks,
                    userIdCounter, matchIdCounter, favoriteIdCounter,
                    notificationIdCounter, feedbackIdCounter, session>>

\* DELETE /api/admin/news/:id
AdminDeleteNews(s, id) ==
  LET d == deleteNewsArticle(newsArticles, id)
  IN /\ Handled("DELETE /api/admin/news/:id", s, NoBody, id,
                IF ~isAdmin(s) THEN Message(403, "Not authorized")
                ELSE IF ~d.result THEN Message(404, "News article not found")
                ELSE Message(200, "News article deleted successfully"))
     /\ newsArticles' = IF isAdmin(s) THEN d.newsArticles ELSE newsArticles
     /\ UNCHANGED <<users, matches, favorites, notifications, feedbacks,
                    userIdCounter, matchIdCounter, favoriteIdCounter,
                    notificationIdCounter, feedbackIdCounter,
                    newsArticleIdCounter, session>>

(***************************************************************************)
(* AuthSpec: registration, login, logout, profile and account requests,    *)
(* handled one at a time.                                                  *)
(***************************************************************************)
RegBody(username, email, password, confirmPassword) ==
  [username |-> username, email |-> email, password |-> password,
   confirmPassword |-> confirmPassword]

RegisterBodies ==
  { RegBody("bob", "bob@x.com", "secret1", "secret1"),
    RegBody("Admin", "bob@x.com", "secret1", "secret1"),
    RegBody("bob", "ADMIN@sportsapp.com", "secret1", "secret1"),
    RegBody("admin", "BOB@x.com", "secret1", "secret1"),
    RegBody("Bob", "admin@sportsapp.com", "secret1", "secret1"),
    RegBody("Bob", "BOB@x.com", "secret1", "secret1"),
    RegBody("bob", "bob@x.com", "secret1", "secret2"),
    RegBody("bob", "bob@x.com", "abc", "abc"),
    [username |-> "bob", email |-> "bob@x.com", password |-> "secret1",
     confirmPassword |-> "secret1", role |-> "admin"] }

LoginBodies ==
  { [email |-> "admin@sportsapp.com", password |-> "admin123"],
    [email |-> "admin@sportsapp.com", password |-> "secret1"],
    [email |-> "ADMIN@sportsapp.com", password |-> "admin123"],
    [email |-> "bob@x.com", password |-> "secret1"],
    [email |-> "BOB@x.com", password |-> "admin123"],
    [email |-> "bob@x.com", password |-> "abc"],
    [email |-> "bob", password |-> "secret1"] }

ProfileBodies ==
  { [username |-> "admin"],
    [username |-> "Admin"],
    [email |-> "ADMIN@sportsapp.com"],
    [role |-> "admin"],
    [role |-> "admin", password |-> "newpass1"],
    [id |-> 1] }

AuthNext ==
  /\ nreq < MaxAuthRequests
  /\ \/ \E s \in Sessions, body \in RegisterBodies : Register(s, body)
     \/ \E s \in Sessions, body \in LoginBodies : Login(s, body)
     \/ \E s \in Sessions : Logout(s)
     \/ \E s \in Sessions : AuthUser(s)
     \/ \E s \in Sessions, body \in ProfileBodies : UpdateProfile(s, body)
     \/ \E s \in Sessions : DeleteAccount(s)

AuthSpec == InitStore /\ [][AuthNext]_vars

(***************************************************************************)
(* Properties of registration, login and profile update.                   *)
(***************************************************************************)
\* some stored user has this username or this email, letter case ignored
TakenIgnoringCase(us, username, email) ==
  \E k \in DOMAIN us :
    \/ toLowerCase(us[k].username) = toLowerCase(username)
    \/ toLowerCase(us[k].email) = toLowerCase(email)

\* C3: a POST /register whose email or username equals, ignoring letter
\* case, that of an existing user is answered 400 and leaves the stored
\* users unchanged, on both storage backends.
C3_DuplicateRegisterRefused ==
  [][(/\ req'.route = "POST /api/register"
      /\ {"username", "email"} \subseteq DOMAIN req'.body
      /\ TakenIgnoringCase(users, req'.body.username, req'.body.email))
     => (res'.status = 400 /\ users' = users)]_vars

\* no two stored users share a username or an email, letter case ignored
UniqueUsers(us) ==
  \A j, k \in DOMAIN us :
    j # k => /\ toLowerCase(us[j].username) # toLowerCase(us[k].username)
             /\ toLowerCase(us[j].email) # toLowerCase(us[k].email)

\* C4: usernames and emails stay unique (case-insensitively) under
\* registrations and profile updates, and a profile update that would take
\* a username or email of another user does not take effect.
C4_UniqueUsernameAndEmail ==
  /\ [](UniqueUsers(users))
  /\ [][(/\ req'.route = "PUT /api/users/profile"
         /\ req'.user # undefined
         /\ \E k \in DOMAIN users :
              /\ users[k].id # req'.user.id
              /\ \/ /\ "username" \in DOMAIN req'.body
                    /\ toLowerCase(users[k].username)
                         = toLowerCase(req'.body.username)
                 \/ /\ "email" \in DOMAIN req'.body
                    /\ toLowerCase(users[k].email)
                         = toLowerCase(req'.body.email))
        => users' = users]_vars

\* C5: no response that carries a user record contains the password field.
C5_NoPasswordInResponse ==
  res.key = "user" => "password" \notin DOMAIN res.value

\* a profile update that set a new password was answered with the user
C5_Witness ==
  /\ req.route = "PUT /api/users/profile"
  /\ "password" \in DOMAIN req.body
  /\ res.status = 200
  /\ res.key = "user"

\* no stored user has this email (letter case ignored) with this password
NoSuchCredentials(us, email, password) ==
  ~\E k \in DOMAIN us :
     /\ toLowerCase(us[k].email) = toLowerCase(email)
     /\ bcryptCompare(password, us[k].password)

\* C6: a login (with a body that passes loginSchema) whose email belongs to
\* no user, and one whose email exists but whose password is wrong, get the
\* same response, 401 with one fixed message, and leave the session without
\* a new identity.
C6_LoginFailureUniform ==
  [][(/\ req'.route = "POST /api/login"
      /\ ValidLogin(req'.body)
      /\ NoSuchCredentials(users, req'.body.email, req'.body.password))
     => (/\ res' = Message(401, "Invalid email or password")
         /\ session' = session)]_vars

\* both failing logins happened: the last one with an unknown email, after
\* which no session is logged in
C6_Witness ==
  /\ req.route = "POST /api/login"
  /\ res.status = 401
  /\ \A k \in DOMAIN users :
       toLowerCase(users[k].email) # toLowerCase(req.body.email)
  /\ \A s \in Sessions : session[s] = 0

\* C10: PUT /users/profile never changes a stored role, whatever the body
\* holds, and no request sequence makes an admin of a registered user: the
\* seeded admin record stays the only one with role admin.
C10_ProfileKeepsRole ==
  [][/\ \A k \in DOMAIN users' : users'[k].role = "admin" => k = 1
     /\ req'.route = "PUT /api/users/profile"
          => \A k \in DOMAIN users :
               k \in DOMAIN users' /\ users'[k].role = users[k].role]_vars

\* a user with role user sent a role in the profile body and was answered 200
C10_Witness ==
  /\ req.route = "PUT /api/users/profile"
  /\ "role" \in DOMAIN req.body
  /\ res.status = 200
  /\ req.user.role = "user"

(***************************************************************************)
(* Spec: the guarded routes of the server (user, match, favorite,          *)
(* notification, feedback and news routes behind isAuthenticated and       *)
(* isAdmin) with registration and login, one request at a time.            *)
(***************************************************************************)
BobBody == RegBody("bob", "bob@x.com", "secret1", "secret1")

AdminLogin == [email |-> "admin@sportsapp.com", password |-> "admin123"]

MatchBodies ==
  { [sportType |-> "football", team1 |-> "Chelsea", team2 |-> "Everton",
     matchTime |-> [iso |-> 24 * HourUnits], status |-> "upcoming"] }

MatchUpdates == { [status |-> "completed"] }

FavoriteBodies ==
  { [matchId |-> 2], [userId |-> 1, matchId |-> 2], [userId |-> 1, matchId |-> 4] }

NewsBodies == { [sportType |-> "football", title |-> "Transfer Updates"] }

FeedbackBodies ==
  { [name |-> "Bob", email |-> "bob@x.com", category |-> "bug",
     message |-> "Scores are late"],
    [name |-> "Bob", email |-> "bob@x.com", category |-> "bug"] }

Next ==
  \/ \E s \in Sessions : Register(s, BobBody)
  \/ \E s \in Sessions : Login(s, AdminLogin)
  \/ \E s \in Sessions : UpdateProfile(s, [id |-> 1])
  \/ \E s \in Sessions : DeleteAccount(s)
  \/ \E s \in Sessions, body \in MatchBodies : AdminCreateMatch(s, body)
  \/ \E s \in Sessions, body \in MatchUpdates : AdminUpdateMatch(s, 2, body)
  \/ \E s \in Sessions, id \in {2, 4} : AdminDeleteMatch(s, id)
  \/ \E s \in Sessions : GetFavorites(s)
  \/ \E s \in Sessions, body \in FavoriteBodies : AddFavorite(s, body)
  \/ \E s \in Sessions, id \in {2, 4} : RemoveFavorite(s, id)
  \/ \E s \in Sessions : CheckUpcoming(s)
  \/ \E s \in Sessions : GetNotifications(s)
  \/ \E s \in Sessions, id \in {1, 2} : MarkRead(s, id)
  \/ \E s \in Sessions, body \in FeedbackBodies : SubmitFeedback(s, body)
  \/ \E s \in Sessions : AdminGetFeedback(s)
  \/ \E s \in Sessions, body \in NewsBodies : AdminCreateNews(s, body)
  \/ \E s \in Sessions, id \in {1, 2} : AdminDeleteNews(s, id)

Spec == InitStore /\ [][Next]_vars

(***************************************************************************)
(* Properties of the guarded routes.                                       *)
(***************************************************************************)
AdminRoutes ==
  {"POST /api/admin/matches", "PUT /api/admin/matches/:id",
   "DELETE /api/admin/matches/:id", "POST /api/admin/news",
   "DELETE /api/admin/news/:id", "GET /api/admin/feedback"}

AuthenticatedRoutes ==
  {"PUT /api/users/profile", "DELETE /api/users/account",
   "GET /api/favorites", "POST /api/favorites",
   "DELETE /api/favorites/:matchId", "GET /api/notifications",
   "PUT /api/notifications/:id/read",
   "POST /api/notifications/check-upcoming"}

\* the entries of a favorites list that reference the match
EntriesFor(list, matchId) == {i \in 1..Len(list) : list[i].matchId = matchId}

\* C2: when an authenticated user posts the same matchId to POST /favorites
\* twice in a row, the second request is answered 400 and a following
\* GET /favorites of that user lists exactly one entry for the match.
C2_SecondFavoriteRefused ==
  [][(/\ req.route = "POST /api/favorites"
      /\ req'.route = "POST /api/favorites"
      /\ req.session = req'.session
      /\ req.user # undefined
      /\ req'.user = req.user
      /\ "matchId" \in DOMAIN req.body
      /\ "matchId" \in DOMAIN req'.body
      /\ req.body.matchId = req'.body.matchId)
     => (/\ res'.status = 400
         /\ GetFavoritesResponse(req.session)'.status = 200
         /\ Cardinality(EntriesFor(GetFavoritesResponse(req.session)'.value,
                                   req.body.matchId)) = 1)]_vars

\* C7: a request to an admin-only endpoint by an authenticated user whose
\* role is not admin is answered 403 and leaves the stored matches and news
\* articles unchanged.
C7_NonAdminRefused ==
  [][(/\ req'.route \in AdminRoutes
      /\ req'.user # undefined
      /\ req'.user.role # "admin")
     => (/\ res'.status = 403
         /\ matches' = matches
         /\ newsArticles' = newsArticles)]_vars

\* a registered user asked to delete a stored match and was refused
C7_Witness ==
  /\ req.route = "DELETE /api/admin/matches/:id"
  /\ req.user # undefined
  /\ req.user.role = "user"
  /\ res.status = 403
  /\ req.param \in Ids(matches)

\* C8: a request to an admin-only endpoint with no valid session is
\* answered 401, one by an authenticated non-admin is answered 403.
C8_AdminRoutes401Or403 ==
  [][req'.route \in AdminRoutes
     => /\ req'.user = undefined => res'.status = 401
        /\ (req'.user # undefined /\ req'.user.role # "admin")
             => res'.status = 403]_vars

\* C9: a request to an authenticated-only endpoint with no valid session is
\* answered 401 and leaves users, favorites and notifications unchanged.
C9_UnauthenticatedRefused ==
  [][(req'.route \in AuthenticatedRoutes /\ req'.user = undefined)
     => (/\ res'.status = 401
         /\ users' = users
         /\ favorites' = favorites
         /\ notifications' = notifications)]_vars

\* an anonymous session asked to mark a stored, unread notification as read
\* and was refused
C9_Witness ==
  /\ req.route = "PUT /api/notifications/:id/read"
  /\ req.user = undefined
  /\ res.status = 401
  /\ req.param \in DOMAIN notifications
  /\ ~notifications[req.param].read

(***************************************************************************)
(* Properties of deletion.                                                 *)
(***************************************************************************)
\* C11: after DELETE /users/account has deleted the caller (deleteUser
\* returned true), no stored Favorite and no stored Notification carries
\* that user's id: getFavoritesByUserId and getNotificationsByUserId for the
\* id both return the empty list.
C11_DeleteUserCascades ==
  [][(req'.route = "DELETE /api/users/account" /\ res'.status = 200)
     => (/\ \A k \in DOMAIN favorites' : favorites'[k].userId # req'.user.id
         /\ \A k \in DOMAIN notifications' :
              notifications'[k].userId # req'.user.id
         /\ getFavoritesByUserId(favorites', matches', req'.user.id)
              = [error |-> "", list |-> << >>]
         /\ getNotificationsByUserId(notifications', req'.user.id) = << >>)]_vars

\* an account was deleted after a notification had been created, which
\* takes a favorite of the same user, and no notification is left
C11_Witness ==
  /\ req.route = "DELETE /api/users/account"
  /\ res.status = 200
  /\ notificationIdCounter > 1
  /\ favoriteIdCounter > 1
  /\ notifications = << >>
  /\ \A k \in DOMAIN favorites : favorites[k].userId # req.user.id

\* C12: after deleteMatch no stored Favorite references the deleted match,
\* whoever owns it, and every Favorite of another match is stored unchanged.
C12_DeleteMatchCascades ==
  [][req'.route = "deleteMatch"
     => (/\ \A k \in DOMAIN favorites' : favorites'[k].matchId # req'.body.id
         /\ \A k \in DOMAIN favorites :
              favorites[k].matchId # req'.body.id
                => (k \in DOMAIN favorites' /\ favorites'[k] = favorites[k]))]_vars

\* a stored match was deleted while favorites of other matches stay and
\* fewer favorites are stored than were created
C12_Witness ==
  /\ req.route = "deleteMatch"
  /\ res.value = TRUE
  /\ backend = "mem"
  /\ favorites # << >>
  /\ \A k \in DOMAIN favorites : favorites[k].matchId # req.body.id
  /\ Cardinality(DOMAIN favorites) < favoriteIdCounter - 1

(***************************************************************************)
(* Properties of the favorite and update routes.                           *)
(***************************************************************************)
\* C13: POST /favorites by an authenticated user with a matchId of no
\* stored match is answered 404 and creates no Favorite record.
C13_UnknownMatch404 ==
  [][(/\ req'.route = "POST /api/favorites"
      /\ req'.user # undefined
      /\ "matchId" \in DOMAIN req'.body
      /\ req'.body.matchId \notin Ids(matches))
     => (res'.status = 404 /\ favorites' = favorites)]_vars

\* C14: PUT /users/profile and PUT /admin/matches/:id, whatever the payload
\* carries, leave the id and the createdAt of every stored user and match
\* as they were.
C14_IdentityFieldsKept ==
  [][req'.route \in {"PUT /api/users/profile", "PUT /api/admin/matches/:id"}
     => (/\ \A k \in DOMAIN users :
              /\ k \in DOMAIN users'
              /\ users'[k].id = users[k].id
              /\ users'[k].createdAt = users[k].createdAt
         /\ \A k \in DOMAIN matches :
              /\ k \in DOMAIN matches'
              /\ matches'[k].id = matches[k].id
              /\ matches'[k].createdAt = matches[k].createdAt)]_vars

\* C15: a request answered 400 (schema validation failure, duplicate email
\* or username at registration, duplicate favorite) leaves users, matches,
\* favorites, notifications and feedback exactly as they were.
C15_BadRequestChangesNothing ==
  [][res'.status = 400
     => (/\ users' = users
         /\ matches' = matches
         /\ favorites' = favorites
         /\ notifications' = notifications
         /\ feedbacks' = feedbacks)]_vars

\* a favorite was posted a second time and refused as a duplicate
C15_Witness ==
  /\ req.route = "POST /api/favorites"
  /\ res.status = 400
  /\ res.message = "Match is already in favorites"
  /\ isFavorite(favorites, req.user.id, req.body.matchId)

(***************************************************************************)
(* Properties of the session.                                              *)
(***************************************************************************)
\* C16: after a successful logout on a session, every later request on that
\* session to an authenticated-only endpoint, and GET /auth/user, is
\* answered 401 until a login or registration succeeds on the session.
\* Stated step by step: a logout leaves the session without an identity, a
\* session without an identity gets one only by its own successful login or
\* registration, and a request on a session without an identity is
\* answered 401.
C16_LoggedOutUntilLogin ==
  [][/\ req'.route = "POST /api/auth/logout"
          => (res'.status = 200 /\ session'[req'.session] = 0)
     /\ \A s \in Sessions :
          (session[s] = 0 /\ session'[s] # 0)
            => /\ req'.session = s
               /\ \/ req'.route = "POST /api/login" /\ res'.status = 200
                  \/ req'.route = "POST /api/register" /\ res'.status = 201
     /\ (/\ session[req'.session] = 0
         /\ req'.route \in AuthenticatedRoutes \cup {"GET /api/auth/user"})
          => res'.status = 401]_vars

\* after a registration and a logout, with the registered user still stored
\* and every session logged out, GET /auth/user was answered 401
C16_Witness ==
  /\ req.route = "GET /api/auth/user"
  /\ res.status = 401
  /\ nreq = 3
  /\ userIdCounter = 3
  /\ 2 \in DOMAIN users
  /\ \A s \in Sessions : session[s] = 0

\* C17: the identity a request acts under is the record stored now under
\* the user id kept in the session, without its password; when no such
\* record is stored (the user was deleted, by this or by another session)
\* the request is anonymous: authenticated-only endpoints answer 401,
\* admin-only endpoints refuse it.
C17_IdentityReadFromStorage ==
  [][/\ req'.user =
          (IF session[req'.session] = 0
              \/ getUser(users, session[req'.session]) = undefined
           THEN undefined
           ELSE Without(getUser(users, session[req'.session]), "password"))
     /\ (/\ session[req'.session] # 0
         /\ getUser(users, session[req'.session]) = undefined)
          => /\ req'.route \in AuthenticatedRoutes
                  => (res'.status = 401 /\ UNCHANGED storeVars)
             /\ req'.route \in AdminRoutes
                  => (res'.status = 403 /\ UNCHANGED storeVars)]_vars

\* a session still holds the id of a user who was deleted through another
\* session, and its request to an authenticated-only endpoint got 401
C17_Witness ==
  /\ req.route \in AuthenticatedRoutes
  /\ session[req.session] # 0
  /\ getUser(users, session[req.session]) = undefined
  /\ req.user = undefined
  /\ res.status = 401

\* C18: a POST /register answered 201 stores one new user, whose role is
\* user whatever the body holds, and leaves the requesting session logged in
\* as that user: GET /auth/user on the same session, sent next, returns the
\* new user.
C18_RegisterLogsInAsUser ==
  [][(req'.route = "POST /api/register" /\ res'.status = 201)
     => \E k \in (DOMAIN users') \ (DOMAIN users), s \in Sessions :
          /\ s = req'.session
          /\ (DOMAIN users') \ (DOMAIN users) = {k}
          /\ users'[k].role = "user"
          /\ session'[s] = users'[k].id
          /\ res'.value = Without(users'[k], "password")
          /\ AuthUserResponse(s)'
               = Json(200, "user", Without(users'[k], "password"))]_vars

\* a registration whose body asked for the role admin was answered 201 and
\* the session is logged in as the new user
C18_Witness ==
  /\ req.route = "POST /api/register"
  /\ res.status = 201
  /\ "role" \in DOMAIN req.body
  /\ req.body.role = "admin"
  /\ session[req.session] = res.value.id
  /\ AuthUserResponse(req.session).status = 200

\* C19: POST /favorites with a body that holds only matchId, by an
\* authenticated user, for a stored match the user has not favorited yet,
\* is answered 201 and creates exactly one Favorite, with the caller's id as
\* userId and the given matchId.
C19_FavoriteByMatchIdOnly ==
  [][(/\ req'.route = "POST /api/favorites"
      /\ req'.user # undefined
      /\ DOMAIN req'.body = {"matchId"}
      /\ req'.body.matchId \in Ids(matches)
      /\ ~isFavorite(favorites, req'.user.id, req'.body.matchId))
     => (/\ res'.status = 201
         /\ \E k \in (DOMAIN favorites') \ (DOMAIN favorites) :
              /\ (DOMAIN favorites') \ (DOMAIN favorites) = {k}
              /\ favorites'[k].userId = req'.user.id
              /\ favorites'[k].matchId = req'.body.matchId)]_vars

(***************************************************************************)
(* NotifySpec: notifyUpcomingMatch called for the stored matches while the *)
(* clock advances and a match is rescheduled.                              *)
(***************************************************************************)
\* the clock advances by one unit
Tick ==
  /\ now < MaxNow
  /\ now' = now + 1
  /\ UNCHANGED <<backend, session, nreq, tasks, req, res>>
  /\ UNCHANGED storeVars

CallNotifyUpcomingMatch(userId, id) ==
  LET n == notifyUpcomingMatch(notifications, users, notificationIdCounter,
                               userId, matches[id])
  IN /\ notificationIdCounter <= MaxNotifications
     /\ notifications' = n.notifications
     /\ notificationIdCounter' = n.counter
     /\ req' = Call("notifyUpcomingMatch",
                    [userId |-> userId, match |-> matches[id]])
     /\ res' = Return(n.error, undefined)
     /\ UNCHANGED <<backend, users, matches, favorites, feedbacks,
                    newsArticles, userIdCounter, matchIdCounter,
                    favoriteIdCounter, feedbackIdCounter,
                    newsArticleIdCounter, session, now, nreq, tasks>>

CallUpdateMatch(id, matchData) ==
  LET u == updateMatch(matches, favorites, id, matchData)
  IN /\ matches' = u.matches
     /\ req' = Call("updateMatch", [id |-> id, matchData |-> matchData])
     /\ res' = Return(u.error, u.match)
     /\ UNCHANGED <<backend, users, favorites, notifications, feedbacks,
                    newsArticles, userIdCounter, matchIdCounter,
                    favoriteIdCounter, notificationIdCounter,
                    feedbackIdCounter, newsArticleIdCounter, session, now, nreq, tasks>>

\* a match rescheduled to 25 and a half hours after the start of the clock
Reschedules == { [matchTime |-> [date |-> (25 * HourUnits) + 1]] }

NotifyNext ==
  \/ Tick
  \/ \E u \in UserIds, id \in DOMAIN matches : CallNotifyUpcomingMatch(u, id)
  \/ \E data \in Reschedules : CallUpdateMatch(1, data)

NotifySpec == InitStore /\ [][NotifyNext]_vars

\* C20: with T the start time of the match, N the current time and
\* h = floor((T - N) / one hour), notifyUpcomingMatch for a stored user
\* creates exactly one Notification, for that user, when h = 24 or h = 1
\* (24h <= T - N < 25h, or 1h <= T - N < 2h), and none for every other h,
\* negative ones included; the notifications already stored stay.  (A step
\* that leaves the clock alone while the last call is notifyUpcomingMatch is
\* such a call.)
C20_NotifyAt24Or1 ==
  [][(/\ req'.route = "notifyUpcomingMatch"
      /\ now' = now
      /\ req'.body.userId \in Ids(users))
     => LET d == getTime(req'.body.match.matchTime) - now
            created == (DOMAIN notifications') \ (DOMAIN notifications)
        IN /\ \A k \in DOMAIN notifications :
                k \in DOMAIN notifications'
                  /\ notifications'[k] = notifications[k]
           /\ IF \/ (24 * HourUnits <= d /\ d < 25 * HourUnits)
                 \/ (HourUnits <= d /\ d < 2 * HourUnits)
              THEN /\ Cardinality(created) = 1
                   /\ \A k \in created :
                        notifications'[k].userId = req'.body.userId
              ELSE created = {}]_vars

\* the call was made one and a half hours before the match and its
\* notification is stored
C20_Witness ==
  /\ req.route = "notifyUpcomingMatch"
  /\ getTime(req.body.match.matchTime) - now = HourUnits + 1
  /\ \E k \in DOMAIN notifications :
       /\ notifications[k].createdAt = now
       /\ notifications[k].userId = req.body.userId
       /\ notifications[k].message.text = "Match starting in 1 hour"

(***************************************************************************)
(* UpcomingSpec: login, favorites and check-upcoming requests while the    *)
(* clock advances between them.  The seeded match 2 is created by the      *)
(* storage constructor with status upcoming and matchTime 24 hours after   *)
(* the creation moment.                                                    *)
(***************************************************************************)
\* time passes between two requests
Delay == now < MaxDelay /\ Tick

UpcomingNext ==
  \/ Delay
  \/ \E s \in Sessions : Login(s, AdminLogin)
  \/ \E s \in Sessions, body \in FavoriteBodies : AddFavorite(s, body)
  \/ \E s \in Sessions : CheckUpcoming(s)
  \/ \E s \in Sessions : GetNotifications(s)

UpcomingSpec == InitStore /\ [][UpcomingNext]_vars

\* the favorites of the user all reference one stored match, which is
\* upcoming and starts 24 hours after its creation moment
FavoritedDayAhead(userId, a) ==
  LET mine == {k \in DOMAIN favorites : favorites[k].userId = userId}
  IN /\ mine # {}
     /\ \A k \in mine : favorites[k].matchId = matches[a].id
     /\ matches[a].status = "upcoming"
     /\ getTime(matches[a].matchTime) = matches[a].createdAt + (24 * HourUnits)

\* C21: when a match A was created with status upcoming and matchTime equal
\* to the creation moment plus 24 hours and a user has favorited A (and
\* nothing else), POST /notifications/check-upcoming by that user creates
\* exactly one Notification, for that user, whose message names both teams
\* of A.
C21_DayAheadScenario ==
  [][(/\ nreq' = nreq + 1
      /\ req'.route = "POST /api/notifications/check-upcoming"
      /\ req'.user # undefined)
     => \A a \in DOMAIN matches :
          FavoritedDayAhead(req'.user.id, a)
            => \E n \in DOMAIN notifications' :
                 /\ (DOMAIN notifications') \ (DOMAIN notifications) = {n}
                 /\ notifications'[n].userId = req'.user.id
                 /\ notifications'[n].message.team1 = matches[a].team1
                 /\ notifications'[n].message.team2 = matches[a].team2]_vars

(***************************************************************************)
(* MatchSpec: getMatches, called directly and through GET /api/matches,    *)
(* while matches are edited with updateMatch.                              *)
(***************************************************************************)
CallGetMatches(sportType, status) ==
  /\ req' = Call("getMatches", [sportType |-> sportType, status |-> status])
  /\ res' = Return("", getMatches(matches, sportType, status))
  /\ UNCHANGED <<backend, session, now, nreq, tasks>>
  /\ UNCHANGED storeVars

\* GET /api/matches; a query parameter that is absent or empty is ""
GetMatches(s, sportType, status) ==
  /\ Handled("GET /api/matches", s,
             [sportType |-> sportType, status |-> status], 0,
             Json(200, "matches", getMatches(matches, sportType, status)))
  /\ UNCHANGED session
  /\ UNCHANGED storeVars

SportFilters == {"", "football", "cricket"}

StatusFilters == {"", "live", "upcoming"}

\* updateMatch payloads: a status, a sport, a start time as a Date and as
\* the string of a JSON body
MatchEdits ==
  { [status |-> "upcoming"], [sportType |-> "cricket"],
    [matchTime |-> [date |-> 24 * HourUnits]], [matchTime |-> [iso |-> 3]] }

MatchNext ==
  \/ \E sportType \in SportFilters, status \in StatusFilters :
       CallGetMatches(sportType, status)
  \/ \E s \in Sessions, sportType \in SportFilters, status \in StatusFilters :
       GetMatches(s, sportType, status)
  \/ \E id \in {1, 3}, data \in MatchEdits : CallUpdateMatch(id, data)

MatchSpec == InitStore /\ [][MatchNext]_vars

\* the stored matches that satisfy every filter that is given
Satisfying(ms, sportType, status) ==
  {ms[k] : k \in {j \in DOMAIN ms :
                    /\ sportType # "" => ms[j].sportType = sportType
                    /\ status # "" => ms[j].status = status}}

\* C22: getMatches returns exactly the stored matches that satisfy every
\* filter given (status only, sportType only, or both: the intersection),
\* each once, on both storage backends.
C22_GetMatchesFilters ==
  (req.route \in {"getMatches", "GET /api/matches"})
    => /\ {res.value[i] : i \in 1..Len(res.value)}
            = Satisfying(matches, req.body.sportType, req.body.status)
       /\ Len(res.value)
            = Cardinality(Satisfying(matches, req.body.sportType, req.body.status))

\* C23: the list returned by getMatches is ordered by match start time
\* descending: of two adjacent entries the earlier one's matchTime is
\* greater than or equal to the later one's.
C23_GetMatchesOrder ==
  (req.route \in {"getMatches", "GET /api/matches"})
    => \A i \in 1..(Len(res.value) - 1) :
         getTime(res.value[i].matchTime) >= getTime(res.value[i + 1].matchTime)

\* three matches were returned, the first of them starting after the last
\* although it was stored after it, one start time being a JSON string
C23_Witness ==
  /\ req.route = "getMatches"
  /\ Len(res.value) = 3
  /\ getTime(res.value[1].matchTime) > getTime(res.value[3].matchTime)
  /\ res.value[1].id > res.value[3].id
  /\ \E i \in 1..3 : ~IsDate(res.value[i].matchTime)

(***************************************************************************)
(* InboxSpec: the IStorage methods that touch notifications, called one    *)
(* after another while the clock advances.                                 *)
(***************************************************************************)
CallCreateNotification(userId) ==
  LET c == createNotification(notifications, users, notificationIdCounter,
             [userId |-> userId, message |-> [text |-> "Match starting in 1 hour"],
              read |-> FALSE])
  IN /\ notificationIdCounter <= MaxCallNotifications
     /\ notifications' = c.notifications
     /\ notificationIdCounter' = c.counter
     /\ req' = Call("createNotification", [userId |-> userId])
     /\ res' = Return(c.error, c.notification)
     /\ UNCHANGED <<backend, users, matches, favorites, feedbacks,
                    newsArticles, userIdCounter, matchIdCounter,
                    favoriteIdCounter, feedbackIdCounter,
                    newsArticleIdCounter, session, now, nreq, tasks>>

CallGetNotificationsByUserId(userId) ==
  /\ req' = Call("getNotificationsByUserId", [userId |-> userId])
  /\ res' = Return("", getNotificationsByUserId(notifications, userId))
  /\ UNCHANGED <<backend, session, now, nreq, tasks>>
  /\ UNCHANGED storeVars

CallMarkNotificationAsRead(id) ==
  LET m == markNotificationAsRead(notifications, id)
  IN /\ notifications' = m.notifications
     /\ req' = Call("markNotificationAsRead", [id |-> id])
     /\ res' = Return("", m.notification)
     /\ UNCHANGED <<backend, users, matches, favorites, feedbacks,
                    newsArticles, userIdCounter, matchIdCounter,
                    favoriteIdCounter, notificationIdCounter,
                    feedbackIdCounter, newsArticleIdCounter, session, now, nreq, tasks>>

InboxNext ==
  \/ Delay
  \/ \E u \in UserIds : CallCreateNotification(u)
  \/ \E u \in UserIds : CallGetNotificationsByUserId(u)
  \/ \E id \in 1..MaxCallNotifications : CallMarkNotificationAsRead(id)
  \/ \E u \in UserIds : CallDeleteUser(u)

InboxSpec == InitStore /\ [][InboxNext]_vars

\* the list holds exactly the stored notifications of the user, each once
OwnedExactly(list, userId) ==
  /\ {list[i] : i \in 1..Len(list)}
       = {notifications[k] : k \in {j \in DOMAIN notifications :
                                      notifications[j].userId = userId}}
  /\ \A i, j \in 1..Len(list) : list[i] = list[j] => i = j

\* C24 as stated: getNotificationsByUserId returns exactly the notifications
\* of the user, and a notification created after another one of the same
\* user (later creation time, or the same clock tick and a later create
\* call) appears before it.
C24_NewestFirstAlways ==
  req.route = "getNotificationsByUserId"
    => /\ OwnedExactly(res.value, req.body.userId)
       /\ \A i, j \in 1..Len(res.value) :
            (\/ res.value[i].createdAt > res.value[j].createdAt
             \/ /\ res.value[i].createdAt = res.value[j].createdAt
                /\ res.value[i].id > res.value[j].id)
              => i < j

\* C24, amended: getNotificationsByUserId returns exactly the notifications
\* of the user, ordered by creation time descending: a notification with a
\* later creation time appears before one with an earlier creation time.
\* The order of notifications created in the same clock tick is left open.
C24_NewestFirstByTimestamp ==
  req.route = "getNotificationsByUserId"
    => /\ OwnedExactly(res.value, req.body.userId)
       /\ \A i, j \in 1..Len(res.value) :
            res.value[i].createdAt > res.value[j].createdAt => i < j

\* two notifications of the user, created at different times, were returned
C24_Witness ==
  /\ req.route = "getNotificationsByUserId"
  /\ Len(res.value) = 2
  /\ res.value[1].createdAt > res.value[2].createdAt
  /\ res.value[1].id > res.value[2].id

\* C25: markNotificationAsRead on a notification that is already read
\* returns the record with read = true and leaves the store as it was, and
\* no storage operation on notifications sets a read flag back to false.
C25_MarkReadIdempotent ==
  [][/\ (/\ req'.route = "markNotificationAsRead"
         /\ now' = now
         /\ \E k \in DOMAIN notifications :
              notifications[k].id = req'.body.id /\ notifications[k].read)
          => /\ notifications' = notifications
             /\ res'.value # undefined
             /\ res'.value.read
             /\ res'.value.id = req'.body.id
     /\ \A k \in (DOMAIN notifications) \cap (DOMAIN notifications') :
          notifications[k].read => notifications'[k].read]_vars

\* a notification was marked and is stored as read
C25_Witness ==
  /\ req.route = "markNotificationAsRead"
  /\ res.value # undefined
  /\ res.value.read
  /\ req.body.id \in DOMAIN notifications
  /\ notifications[req.body.id] = res.value

(***************************************************************************)
(* Properties of identifiers, errors and integrity.                        *)
(***************************************************************************)
\* between the collection before a step (old, counter ctr) and after it
\* (new, counter next): stored ids are pairwise different and below the
\* counter, and a record that appears gets an id not handed out before
MonotonicIds(old, ctr, new, next) ==
  /\ next >= ctr
  /\ \A j, k \in DOMAIN new : new[j].id = new[k].id => j = k
  /\ \A k \in DOMAIN new : new[k].id < next
  /\ \A k \in (DOMAIN new) \ (DOMAIN old) : new[k].id >= ctr

\* C26: within each entity kind the ids given by successive creates are
\* strictly increasing, no two stored records have the same id, and an id
\* is never assigned again after its record was deleted.
C26_IdsMonotonicAndUnique ==
  [][/\ MonotonicIds(users, userIdCounter, users', userIdCounter')
     /\ MonotonicIds(matches, matchIdCounter, matches', matchIdCounter')
     /\ MonotonicIds(favorites, favoriteIdCounter,
                     favorites', favoriteIdCounter')
     /\ MonotonicIds(notifications, notificationIdCounter,
                     notifications', notificationIdCounter')
     /\ MonotonicIds(feedbacks, feedbackIdCounter,
                     feedbacks', feedbackIdCounter')
     /\ MonotonicIds(newsArticles, newsArticleIdCounter,
                     newsArticles', newsArticleIdCounter')]_vars

(***************************************************************************)
(* FaultSpec: requests during which a query of DatabaseStorage is rejected *)
(* (the connection of the pool in server/db.ts fails), next to requests    *)
(* that are handled normally.                                              *)
(***************************************************************************)
\* the error a rejected query raises
StorageFailure == [message |-> "Connection terminated unexpectedly"]

\* the error handler registered last: status and message of the error
FinalErrorHandler(err) ==
  Message(IF "status" \in DOMAIN err THEN err.status
          ELSE IF "statusCode" \in DOMAIN err THEN err.statusCode
          ELSE 500,
          IF err.message # "" THEN err.message ELSE "Internal Server Error")

\* the message of the catch block of a route
CatchMessage(route) ==
  CASE route = "GET /api/matches" -> "Server error while fetching matches"
    [] route = "GET /api/favorites" -> "Server error while fetching favorites"
    [] route = "GET /api/notifications"
         -> "Server error while fetching notifications"
    [] route = "POST /api/login" -> "Internal server error"

\* a request during which an error was raised; the request records the
\* text of the error in place of a body
Failed(route, s, user, err, response) ==
  /\ nreq < MaxRequests
  /\ nreq' = nreq + 1
  /\ UNCHANGED tasks
  /\ req' = [route |-> route, session |-> s, user |-> user,
             body |-> [raised |-> err.message], param |-> 0]
  /\ res' = response
  /\ UNCHANGED <<backend, now, session>>
  /\ UNCHANGED storeVars

\* storage.getUser is rejected inside passport.deserializeUser: done(err)
\* hands the error to next(), which ends in the final error handler
DeserializeFails(s, route) ==
  /\ backend = "db"
  /\ session[s] # 0
  /\ Failed(route, s, undefined, StorageFailure,
            FinalErrorHandler(StorageFailure))

\* a storage call is rejected inside the try block of a route handler (for
\* POST /api/login: inside the verify callback of the LocalStrategy)
HandlerFails(s, route) ==
  /\ backend = "db"
  /\ route \in AuthenticatedRoutes => isAuthenticated(s)
  /\ Failed(route, s, deserializeUser(s), StorageFailure,
            Message(500, CatchMessage(route)))

FaultRoutes ==
  {"GET /api/matches", "GET /api/favorites", "GET /api/notifications",
   "POST /api/login"}

FaultNext ==
  \/ \E s \in Sessions : Login(s, AdminLogin)
  \/ \E s \in Sessions, body \in FavoriteBodies : AddFavorite(s, body)
  \/ \E s \in Sessions : GetFavorites(s)
  \/ \E s \in Sessions, route \in FaultRoutes : DeserializeFails(s, route)
  \/ \E s \in Sessions, route \in FaultRoutes : HandlerFails(s, route)

FaultSpec == InitStore /\ [][FaultNext]_vars

\* the messages of the 500 responses written in the route handlers
GenericMessages ==
  {"Error during login after registration", "Server error during registration",
   "Internal server error", "Error during login", "Error during logout",
   "Server error during profile update",
   "Error during logout after account deletion",
   "Server error during account deletion",
   "Server error while fetching matches", "Server error while fetching match",
   "Server error while creating match", "Server error while updating match",
   "Server error while deleting match",
   "Server error while fetching favorites",
   "Server error while adding favorite",
   "Server error while removing favorite",
   "Server error while checking notifications",
   "Server error while fetching notifications",
   "Server error while updating notification",
   "Server error while submitting feedback",
   "Server error while fetching feedback",
   "Server error while creating news article",
   "Server error while deleting news article", "Internal Server Error"}

\* C27: when a storage operation or a middleware raises an unexpected
\* error, the response has status 500 and a message of the fixed generic
\* set, never the text of the error, whether the error is caught in a route
\* handler or reaches the final error handler.
C27_GenericServerErrors ==
  /\ res.status = 500 => res.message \in GenericMessages
  /\ "raised" \in DOMAIN req.body
       => (res.status = 500 /\ res.message # req.body.raised)

(***************************************************************************)
(* EquivSpec: the storage calls of StorageSpec, with the choice between    *)
(* the two implementations of IStorage made again on the seeded store, so  *)
(* that one call can be asked of both implementations in the same state.   *)
(***************************************************************************)
\* the module exports the other implementation; nothing was called yet
SwitchBackend ==
  /\ req.route = "none"
  /\ backend' = IF backend = "mem" THEN "db" ELSE "mem"
  /\ UNCHANGED <<session, now, nreq, tasks, req, res>>
  /\ UNCHANGED storeVars

EquivNext ==
  \/ StorageNext
  \/ SwitchBackend

EquivSpec == InitStore /\ [][EquivNext]_vars

\* arguments of the lookups by name
LookupEmails == {"admin@sportsapp.com", "ADMIN@sportsapp.com", "bob@x.com"}
LookupUsernames == {"admin", "Admin", "bob"}

\* C28: MemStorage and DatabaseStorage are observationally equivalent: a
\* call made on the same store returns the same value (or throws the same
\* error) and leaves the same store on both implementations, lookups by
\* e-mail or username in another case included.
C28_BackendsEquivalent ==
  [][backend' # backend =>
       /\ \A e \in LookupEmails :
            getUserByEmail(users, e) = getUserByEmail(users, e)'
       /\ \A n \in LookupUsernames :
            getUserByUsername(users, n) = getUserByUsername(users, n)'
       /\ \A u \in UserIds :
            /\ getUser(users, u) = getUser(users, u)'
            /\ getFavoritesByUserId(favorites, matches, u)
                 = getFavoritesByUserId(favorites, matches, u)'
            /\ deleteUser(users, favorites, notifications, feedbacks, u)
                 = deleteUser(users, favorites, notifications, feedbacks, u)'
            /\ \A m \in SampleMatchIds :
                 addFavorite(favorites, users, matches, favoriteIdCounter, u, m)
                   = addFavorite(favorites, users, matches,
                                 favoriteIdCounter, u, m)']_vars

(***************************************************************************)
(* Properties of the stored references and of the deletes.                 *)
(***************************************************************************)
\* C29: in every state reached through the routes every stored Favorite
\* has the userId of a stored user and the matchId of a stored match, and
\* GET /favorites of an authenticated user is never answered 500.
C29_ReferentialIntegrity ==
  /\ \A k \in DOMAIN favorites :
       /\ favorites[k].userId \in Ids(users)
       /\ favorites[k].matchId \in Ids(matches)
  /\ (req.route = "GET /api/favorites" /\ req.user # undefined)
       => res.status # 500

\* C30: a delete of a match or of an account that is answered 404 leaves
\* the favorites and the notifications as they were before the request.
C30_FailedDeleteChangesNothing ==
  [][(/\ req'.route \in {"DELETE /api/admin/matches/:id",
                         "DELETE /api/users/account"}
      /\ nreq' = nreq + 1
      /\ res'.status = 404)
     => (favorites' = favorites /\ notifications' = notifications)]_vars

(***************************************************************************)
(* RaceSpec: addFavorite calls in flight at the same time.  A call runs to *)
(* `await this.isFavorite(...)`, where other calls may run, and resumes    *)
(* with the answer it got.                                                 *)
(***************************************************************************)
\* the part of addFavorite after the check: [error, favorite, favorites,
\* counter]
insertFavorite(fs, us, ms, ctr, userId, matchId) ==
  IF backend = "db" /\ ~(userId \in Ids(us) /\ matchId \in Ids(ms))
  THEN \* foreign key violation; the serial value is consumed
       [error |-> "violates foreign key constraint", favorite |-> undefined,
        favorites |-> fs, counter |-> ctr + 1]
  ELSE LET newFavorite == [id |-> ctr, userId |-> userId,
                           matchId |-> matchId, createdAt |-> now]
       IN [error |-> "", favorite |-> newFavorite,
           favorites |-> Put(fs, ctr, newFavorite), counter |-> ctr + 1]

\* addFavorite is called and runs up to the await of isFavorite
StartAddFavorite(t, userId, matchId) ==
  /\ tasks[t].pc = "idle"
  /\ favoriteIdCounter <= MaxFavorites
  /\ tasks' = [tasks EXCEPT ![t] =
                 [pc |-> "await isFavorite",
                  args |-> [userId |-> userId, matchId |-> matchId],
                  found |-> isFavorite(favorites, userId, matchId)]]
  /\ UNCHANGED <<backend, session, now, nreq, req, res>>
  /\ UNCHANGED storeVars

\* the call resumes after the await: it throws or inserts
ResumeAddFavorite(t) ==
  LET a == tasks[t].args
      r == IF tasks[t].found
           THEN [error |-> "Match is already in favorites",
                 favorite |-> undefined, favorites |-> favorites,
                 counter |-> favoriteIdCounter]
           ELSE insertFavorite(favorites, users, matches, favoriteIdCounter,
                               a.userId, a.matchId)
  IN /\ tasks[t].pc = "await isFavorite"
     /\ tasks' = [tasks EXCEPT ![t] = Idle]
     /\ favorites' = r.favorites
     /\ favoriteIdCounter' = r.counter
     /\ req' = Call("addFavorite", a)
     /\ res' = Return(r.error, r.favorite)
     /\ UNCHANGED <<backend, users, matches, notifications, feedbacks,
                    newsArticles, userIdCounter, matchIdCounter,
                    notificationIdCounter, feedbackIdCounter,
                    newsArticleIdCounter, session, now, nreq>>

RaceNext ==
  \/ \E t \in Tasks, u \in UserIds, m \in SampleMatchIds :
       StartAddFavorite(t, u, m)
  \/ \E t \in Tasks : ResumeAddFavorite(t)
  \/ \E u \in UserIds, m \in SampleMatchIds : CallRemoveFavorite(u, m)

RaceSpec == InitStore /\ [][RaceNext]_vars

\* C31: of addFavorite calls for the same (userId, matchId) that interleave
\* at their awaits at most one inserts: a call that resumes when the pair
\* is already stored throws the duplicate error and stores nothing.
C31_OneOfConcurrentInserts ==
  [][\A t \in Tasks :
       (/\ tasks[t].pc = "await isFavorite"
        /\ tasks'[t].pc = "idle"
        /\ isFavorite(favorites, tasks[t].args.userId, tasks[t].args.matchId))
       => (/\ res'.message = "Match is already in favorites"
           /\ favorites' = favorites)]_vars

(***************************************************************************)
(* RegisterRaceSpec: POST /api/register handlers in flight at the same     *)
(* time.  A handler runs from one await to the next while the others wait. *)
(***************************************************************************)
\* the handler of the task answers; the request and its response are
\* recorded
Responded(t, response) ==
  /\ nreq < MaxRequests
  /\ nreq' = nreq + 1
  /\ req' = Request("POST /api/register", tasks[t].args.session,
                    tasks[t].args.body, 0)
  /\ res' = response
  /\ tasks' = [tasks EXCEPT ![t] = Idle]
  /\ UNCHANGED <<backend, now>>

\* the handler moves on to its next await
Awaiting(t, pc, found) ==
  /\ tasks' = [tasks EXCEPT ![t] = [pc |-> pc, args |-> tasks[t].args,
                                    found |-> found]]
  /\ UNCHANGED <<nreq, req, res, backend, now>>

\* validateRequest(registerSchema), then the handler up to
\* `await storage.getUserByEmail(email)`
StartRegister(t, s, body) ==
  /\ tasks[t].pc = "idle"
  /\ userIdCounter <= MaxUsers
  /\ IF ~ValidRegister(body)
     THEN Handled("POST /api/register", s, body, 0,
                  Message(400, "Validation error"))
     ELSE /\ tasks' = [tasks EXCEPT ![t] =
                         [pc |-> "await getUserByEmail",
                          args |-> [session |-> s, body |-> body],
                          found |-> getUserByEmail(users, body.email)
                                      # undefined]]
          /\ UNCHANGED <<nreq, req, res, backend, now>>
  /\ UNCHANGED session
  /\ UNCHANGED storeVars

\* after the e-mail lookup: 400, or on to
\* `await storage.getUserByUsername(username)`
AfterGetUserByEmail(t) ==
  /\ tasks[t].pc = "await getUserByEmail"
  /\ IF tasks[t].found
     THEN Responded(t, Message(400, "Email already in use"))
     ELSE Awaiting(t, "await getUserByUsername",
                   getUserByUsername(users, tasks[t].args.body.username)
                     # undefined)
  /\ UNCHANGED session
  /\ UNCHANGED storeVars

\* after the username lookup: 400, or on to `await bcrypt.hash(password, 10)`
AfterGetUserByUsername(t) ==
  /\ tasks[t].pc = "await getUserByUsername"
  /\ IF tasks[t].found
     THEN Responded(t, Message(400, "Username already taken"))
     ELSE Awaiting(t, "await bcrypt.hash", FALSE)
  /\ UNCHANGED session
  /\ UNCHANGED storeVars

\* after the hash: storage.createUser, req.login and the response; the
\* await of createUser only delays the login of this handler's own session
AfterHash(t) ==
  LET body == tasks[t].args.body
      s == tasks[t].args.session
      c == createUser(users, userIdCounter,
             [username |-> body.username, email |-> body.email,
              password |-> bcryptHash(body.password), role |-> "user"])
  IN /\ tasks[t].pc = "await bcrypt.hash"
     /\ users' = c.users
     /\ userIdCounter' = c.counter
     /\ IF c.error # ""
        THEN /\ Responded(t, Message(500, "Server error during registration"))
             /\ UNCHANGED session
        ELSE /\ Responded(t, Json(201, "user", StripPassword(c.user)))
             /\ session' = [session EXCEPT ![s] = c.user.id]
     /\ UNCHANGED <<matches, favorites, notifications, feedbacks, newsArticles,
                    matchIdCounter, favoriteIdCounter, notificationIdCounter,
                    feedbackIdCounter, newsArticleIdCounter>>

RaceBodies ==
  { BobBody,
    RegBody("Bob", "bob@x.com", "secret1", "secret1"),
    RegBody("bob", "BOB@x.com", "secret1", "secret1"),
    RegBody("bob", "bob@x.com", "abc", "abc") }

RegisterRaceNext ==
  \/ \E t \in Tasks, s \in Sessions, body \in RaceBodies :
       StartRegister(t, s, body)
  \/ \E t \in Tasks : AfterGetUserByEmail(t)
  \/ \E t \in Tasks : AfterGetUserByUsername(t)
  \/ \E t \in Tasks : AfterHash(t)

RegisterRaceSpec == InitStore /\ [][RegisterRaceNext]_vars

\* C32: with POST /register handlers for the same email or the same
\* username interleaving at their awaits, at most one user with that email
\* and at most one with that username is stored.
C32_OneUserPerRacedRegister ==
  \A j, k \in DOMAIN users :
    j # k => /\ users[j].email # users[k].email
             /\ users[j].username # users[k].username

(***************************************************************************)
(* OwnerSpec: two users and their notifications.  The notifications are    *)
(* stored by createNotification, as check-upcoming stores them for the     *)
(* caller.                                                                 *)
(***************************************************************************)
\* a notification is stored for a stored user
StoreNotification(userId) ==
  /\ userId \in Ids(users)
  /\ CallCreateNotification(userId)

OwnerNext ==
  \/ \E s \in Sessions : Register(s, BobBody)
  \/ \E s \in Sessions : Login(s, AdminLogin)
  \/ \E u \in UserIds : StoreNotification(u)
  \/ \E s \in Sessions, id \in 1..MaxCallNotifications : MarkRead(s, id)
  \/ \E s \in Sessions : GetNotifications(s)

OwnerSpec == InitStore /\ [][OwnerNext]_vars

\* C33: PUT /notifications/:id/read by an authenticated user leaves every
\* notification of another user as it was and returns only a notification
\* of the caller.
C33_MarkReadOwnOnly ==
  [][(/\ req'.route = "PUT /api/notifications/:id/read"
      /\ nreq' = nreq + 1
      /\ req'.user # undefined)
     => (/\ \A k \in DOMAIN notifications :
              notifications[k].userId # req'.user.id
                => (k \in DOMAIN notifications'
                      /\ notifications'[k] = notifications[k])
         /\ res'.key = "notification"
              => res'.value.userId = req'.user.id)]_vars

(***************************************************************************)
(* Properties of the caller's own records.                                 *)
(***************************************************************************)
\* C34: POST /favorites and DELETE /favorites/:matchId by an authenticated
\* user create a Favorite only with the caller's id as userId, whatever
\* userId the body carries, and leave every Favorite of another user stored
\* and unchanged.
C34_FavoritesOwnOnly ==
  [][(/\ req'.route \in {"POST /api/favorites", "DELETE /api/favorites/:matchId"}
      /\ nreq' = nreq + 1
      /\ req'.user # undefined)
     => (/\ \A k \in (DOMAIN favorites') \ (DOMAIN favorites) :
              favorites'[k].userId = req'.user.id
         /\ \A k \in DOMAIN favorites :
              favorites[k].userId # req'.user.id
                => (k \in DOMAIN favorites'
                      /\ favorites'[k] = favorites[k]))]_vars

\* a user added a favorite with a body that names another user, while that
\* other user has a favorite
C34_Witness ==
  /\ req.route = "POST /api/favorites"
  /\ req.user # undefined
  /\ res.status = 201
  /\ "userId" \in DOMAIN req.body
  /\ req.body.userId # req.user.id
  /\ res.value.userId = req.user.id
  /\ \E k \in DOMAIN favorites : favorites[k].userId = req.body.userId

(***************************************************************************)
(* CheckSpec: check-upcoming with two users, their favorites and their     *)
(* notifications, and a favorited match that is no longer upcoming.        *)
(***************************************************************************)
CheckNext ==
  \/ \E s \in Sessions : Register(s, BobBody)
  \/ \E s \in Sessions : Login(s, AdminLogin)
  \/ \E u \in UserIds : StoreNotification(u)
  \/ \E s \in Sessions, body \in FavoriteBodies : AddFavorite(s, body)
  \/ \E s \in Sessions, body \in MatchUpdates : AdminUpdateMatch(s, 2, body)
  \/ \E s \in Sessions : CheckUpcoming(s)

CheckSpec == InitStore /\ [][CheckNext]_vars

\* C35: POST /notifications/check-upcoming by an authenticated user creates
\* notifications only for the caller and only for matches that are upcoming
\* and favorited by the caller at the time of the call, and leaves users,
\* matches, favorites and the notifications of other users unchanged.
C35_CheckUpcomingOwnOnly ==
  [][(/\ req'.route = "POST /api/notifications/check-upcoming"
      /\ nreq' = nreq + 1
      /\ req'.user # undefined)
     => (/\ \A k \in (DOMAIN notifications') \ (DOMAIN notifications) :
              /\ notifications'[k].userId = req'.user.id
              /\ \E m \in DOMAIN matches :
                   /\ matches[m].status = "upcoming"
                   /\ isFavorite(favorites, req'.user.id, matches[m].id)
                   /\ notifications'[k].message.team1 = matches[m].team1
                   /\ notifications'[k].message.team2 = matches[m].team2
         /\ \A k \in DOMAIN notifications :
              notifications[k].userId # req'.user.id
                => (k \in DOMAIN notifications'
                      /\ notifications'[k] = notifications[k])
         /\ users' = users
         /\ matches' = matches
         /\ favorites' = favorites)]_vars

\* check-upcoming stored a notification for the caller while a notification
\* of another user was stored
C35_Witness ==
  /\ req.route = "POST /api/notifications/check-upcoming"
  /\ req.user # undefined
  /\ res.status = 200
  /\ \E k \in DOMAIN notifications :
       /\ notifications[k].id = notificationIdCounter - 1
       /\ notifications[k].userId = req.user.id
       /\ notifications[k].message.text = "Upcoming match tomorrow"
  /\ \E j \in DOMAIN notifications : notifications[j].userId # req.user.id
====
